---- MODULE Spec2Model ----
(***************************************************************************)
(* Run Execution Engine of openbench-studio.                               *)
(*                                                                         *)
(* The module models backend/app/runner/executor.py: one execute_run task  *)
(* for a run, a bounded number of cancel_run requests, the subprocess of   *)
(* the current attempt, and the Run Repository row of the run as written   *)
(* by run_store.update_run.                                                *)
(*                                                                         *)
(* All coroutines share one event loop, so the code between two awaits is  *)
(* one atomic step.  Each action below is the effect of one await followed *)
(* by the synchronous code up to the next await.  cancel_run blocks the    *)
(* loop from its registry lookup to the registry pop (terminate and the    *)
(* grace-period wait are blocking calls), so that part is one step.        *)
(*                                                                         *)
(* Log files are modelled by the set of failure patterns that occur in     *)
(* stdout.log and stderr.log together; no pattern of the table is a        *)
(* substring of another one, so a set loses nothing for classification.    *)
(* File I/O in the artifact directory and repository writes are assumed    *)
(* to succeed; a launch (Popen) may raise FileNotFoundError.               *)
(***************************************************************************)
EXTENDS Integers, Sequences, FiniteSets, TLC

\* ------------------------------------------------------------------ bounds
MaxCancels == 2          \* number of cancel_run requests issued for the run
MaxOutputPatterns == 2   \* failure patterns in the output of one attempt
MaxConns == 3            \* WebSockets that connect to the broadcaster
MaxLogLines == 1         \* lines the subprocess writes to stdout.log
MaxLogAttempts == 2      \* attempts that write to stdout.log (TailSpec)
MaxOutput == 3           \* characters the subprocesses write to stdout.log
MaxPolls == 2            \* iterations of the stream of a run (LoopSpec)
MaxConfigRetries == 2    \* largest max_retries of a with_retry call (RetrySpec)
MaxSchedulerPolls == 2   \* polls of the scheduler (SchedulerSpec)
MaxKeys == 3             \* keys of the dictionary given to extract_metrics_from_dict

\* --------------------------------------------------------------- constants
MAX_RETRIES == 5
BASE_DELAY == 1000
GRACE_PERIOD == 5

RunId == "r1"

QUEUED == "queued"
RUNNING == "running"
COMPLETED == "completed"
FAILED == "failed"
CANCELED == "canceled"

TerminalStatuses == {COMPLETED, FAILED, CANCELED}

None == "none"

\* Exit codes a subprocess can end with: success, generic failure, the
\* conventional "interrupted" code, death by SIGTERM.
ExitCodes == {0, 1, 130, -15}

\* RunExecutor._detect_failure: the ordered rule table.
failure_patterns ==
  << [pattern |-> "Task interrupted (no samples completed", retryable |-> FALSE],
     [pattern |-> "Error code:",                retryable |-> FALSE],
     [pattern |-> "NotFoundError:",             retryable |-> FALSE],
     [pattern |-> "does not exist or you do not have access", retryable |-> FALSE],
     [pattern |-> "model_not_found",            retryable |-> FALSE],
     [pattern |-> "AuthenticationError:",       retryable |-> FALSE],
     [pattern |-> "PermissionDeniedError:",     retryable |-> FALSE],
     [pattern |-> "RateLimitError:",            retryable |-> TRUE],
     [pattern |-> "rate_limit_exceeded",        retryable |-> TRUE],
     [pattern |-> "Too Many Requests",          retryable |-> TRUE],
     [pattern |-> "InternalServerError:",       retryable |-> TRUE],
     [pattern |-> "ServiceUnavailableError:",   retryable |-> TRUE],
     [pattern |-> "BadGatewayError:",           retryable |-> TRUE],
     [pattern |-> "GatewayTimeoutError:",       retryable |-> TRUE],
     [pattern |-> "Connection refused",         retryable |-> TRUE],
     [pattern |-> "Connection reset",           retryable |-> TRUE],
     [pattern |-> "ETIMEDOUT",                  retryable |-> TRUE],
     [pattern |-> "ECONNRESET",                 retryable |-> TRUE],
     [pattern |-> "InsufficientQuotaError:",    retryable |-> FALSE],
     [pattern |-> "InvalidRequestError:",       retryable |-> FALSE],
     [pattern |-> "[CANCELED]",                 retryable |-> FALSE] >>

\* Patterns the modelled subprocess can print: one of each class of the table
\* (not-found, authentication, transient, malformed request, cancellation).
OutputPatterns ==
  {"NotFoundError:", "AuthenticationError:", "RateLimitError:",
   "InvalidRequestError:", "[CANCELED]"}

\* The outputs of one attempt: the patterns its stdout+stderr contain.
Outputs == {o \in SUBSET OutputPatterns : Cardinality(o) <= MaxOutputPatterns}

\* Error messages.  A message is the text and the attempt count of the
\* "(failed after N attempts)" suffix, 0 when there is no suffix.
Msg(text, n) == [text |-> text, attempts |-> n]
NoError == Msg(None, 0)

\* ---------------------------------------------------------------- variables
VARIABLES
  hasConfig,          \* run.config is not None
  hasOwner,           \* run.user_id is set
  run,                \* the persisted row of the run (Run Repository)
  dbWrites,           \* history: the status written by each update_run, in order
  pc,                 \* position of the execute_run task
  attempt,            \* loop variable of the retry loop
  launches,           \* history: number of subprocesses started (Popen returned)
  running_processes,  \* keys of RunExecutor._running_processes
  canceled_runs,      \* RunExecutor._canceled_runs
  retry_states,       \* RunExecutor._retry_states[run_id]: <<>> or <<state>>
  proc,               \* the subprocess of the current attempt
  content,            \* patterns present in stdout.log + stderr.log
  lastOut,            \* history: patterns printed by the latest attempt itself
  ownRetryable,       \* history: every attempt before the latest one printed,
                      \* by itself, a retryable failure and did not exit 130
  lastVerdict,        \* history: branch the classification of the latest
                      \* attempt took, "none" until it is classified
  status,             \* local variable status of execute_run
  error,              \* local variable error of execute_run
  exit_code,          \* local variable exit_code of execute_run
  meta,               \* meta.json: <<>> or <<content>>
  events,             \* event types passed to broadcast_run_event, in order
  notified,           \* calls of notification_service.send_run_notification
  cancel,             \* position of each cancel_run request
  backoffCancel,      \* history: <<n>> once cancel_run was called during a
                      \* backoff sleep, n the launches made until then
  faulty,             \* the summary extraction, the broadcasts and the
                      \* notification dispatch of the run may raise
  sideFailed,         \* history: a summary extraction, a broadcast or a
                      \* notification dispatch of the run has raised
  hungSubscriber,     \* a subscriber of the run is registered whose
                      \* send_text never completes
  (* ConnectionManager (ws.py), specification BroadcastSpec *)
  sock,               \* state of each WebSocket: "new", "open", "closed"
  topic,              \* what each WebSocket connected to: a run or the dashboard
  run_connections,    \* ConnectionManager._run_connections, a list per run
  dashboard_connections, \* ConnectionManager._dashboard_connections
  inbox,              \* the messages each WebSocket has delivered to its client
  bc,                 \* the broadcast_run_event call in progress
  (* a live stream of the run (runs.py, ws.py), specification StreamSpec *)
  logLen,             \* number of lines in stdout.log
  pending,            \* the broadcast the executor awaits: <<>> or <<call>>
  stream,             \* the stream: position of its loop, its local
                      \* variables, and what its subscriber has received
  (* stdout.log, its writers and a tailer, specification TailSpec *)
  logPc,              \* position of execute_run around the "with open" block
  logAttempt,         \* loop variable attempt of that execute_run
  logExists,          \* stdout.log exists
  stdout_log,         \* the content of stdout.log
  stdout_buffer,      \* what stdout_file has buffered and not yet written
  stdout_pos,         \* local variable stdout_pos of the stream
  log_lines,          \* the lines of the log_line events the stream has sent
  last_progress,      \* local variable last_progress: <<>> or <<progress>>
  progress_events,    \* the data of the progress events the stream has sent
  (* RunStore.delete_run (run_store.py), specification DeleteSpec *)
  deleter,            \* the delete_run call: its position, the status it
                      \* read, what it returned
  row_deleted,        \* the row of the run has been deleted
  artifacts_deleted,  \* the artifact directory of the run has been removed
  (* calculate_delay (retry.py), specification DelaySpec *)
  delay_call,         \* the latest call: <<>> or <<arguments and result>>
  (* the classification of an attempt (executor.py), specification ClassifySpec *)
  classify_call,      \* the latest classification: <<>> or <<inputs and outcome>>
  (* the event loop shared by the tasks of two runs, specification LoopSpec *)
  loop_thread,        \* the call that holds the thread of the event loop, or none
  subprocess,         \* the subprocess of each run
  executing,          \* position of the execute_run task of each run
  canceling,          \* position of the cancel_run call of each run
  grace_elapsed,      \* seconds the wait(timeout=5) in progress has lasted
  polled,             \* iterations the stream of each run has made
  (* the lock of the ConnectionManager (ws.py), specification LockSpec *)
  lock,               \* ConnectionManager._lock: who holds it, or none
  subscriber,         \* position of the handler of each WebSocket
  subscribers,        \* _run_connections[run_id], the list of one run
  delivery,           \* the broadcast_to_run call: position, snapshot, failed sends
  sent,               \* history: the WebSockets the message was sent to
  (* with_retry (retry.py), specification RetrySpec *)
  with_retry_call,    \* the with_retry call: its position, local variables and history
  (* RunScheduler (scheduler.py), specification SchedulerSpec *)
  scheduled,          \* the rows of the scheduled runs: scheduled_for and status
  handed,             \* history: the execute_run tasks created for each run
  scheduler,          \* the scheduler task: position, due_runs, history of its polls
  (* extract_metrics_from_dict (summary_parser.py), specification MetricsSpec *)
  metrics_call        \* the latest call: <<>> or <<argument and result>>

vars == << hasConfig, hasOwner, run, dbWrites, pc, attempt, launches,
           running_processes, canceled_runs, retry_states, proc, content,
           lastOut, ownRetryable, lastVerdict, status, error, exit_code, meta, events,
           notified, cancel, backoffCancel, faulty, sideFailed, hungSubscriber,
           sock, topic, run_connections, dashboard_connections, inbox, bc,
           logLen, pending, stream, logPc, logAttempt, logExists,
           stdout_log, stdout_buffer, stdout_pos, log_lines, last_progress,
           progress_events, deleter, row_deleted, artifacts_deleted,
           delay_call,
           classify_call,
           loop_thread, subprocess, executing, canceling, grace_elapsed, polled,
           lock, subscriber, subscribers, delivery, sent,
           with_retry_call,
           scheduled, handed, scheduler,
           metrics_call >>

inputVars == << hasConfig, hasOwner, faulty >>
dbVars == << run, dbWrites >>
localVars == << status, error, exit_code >>
histVars == << lastOut, ownRetryable, lastVerdict >>
cancelVars == << cancel, backoffCancel >>
slowVars == << hungSubscriber >>
bcastVars == << sock, topic, run_connections, dashboard_connections, inbox, bc >>
streamVars == << logLen, pending, stream >>
logVars == << logPc, logAttempt, logExists, stdout_log, stdout_buffer >>
tailerVars == << stdout_pos, log_lines, last_progress, progress_events >>
deleteVars == << deleter, row_deleted, artifacts_deleted >>
delayVars == << delay_call >>
classifyVars == << classify_call >>
loopVars == << loop_thread, subprocess, executing, canceling, grace_elapsed,
              polled >>
lockVars == << lock, subscriber, subscribers, delivery, sent >>
retryVars == << with_retry_call >>
schedVars == << scheduled, handed, scheduler >>
metricsVars == << metrics_call >>
laterVars == << classifyVars, loopVars, lockVars, retryVars, schedVars, metricsVars >>
restVars == << logVars, tailerVars, deleteVars, delayVars, laterVars >>
otherVars == << slowVars, bcastVars, streamVars, restVars >>
execVars == << hasConfig, hasOwner, run, dbWrites, pc, attempt, launches,
               running_processes, canceled_runs, retry_states, proc, content,
               lastOut, ownRetryable, lastVerdict, status, error, exit_code,
               meta, events, notified, cancel, backoffCancel, faulty,
               sideFailed >>

Cancels == 1..MaxCancels

\* ------------------------------------------------------------ pure helpers

\* Faulty variant: the last matching rule of the table decides.
FirstMatch_Last(c) ==
  LET hits == {i \in 1..Len(failure_patterns) : failure_patterns[i].pattern \in c}
  IN IF hits = {} THEN 0 ELSE CHOOSE i \in hits : \A j \in hits : i >= j

\* Index of the first rule of the table whose pattern occurs in c, 0 if none.
FirstMatch(c) ==
  LET hits == {i \in 1..Len(failure_patterns) : failure_patterns[i].pattern \in c}
  IN IF hits = {} THEN 0 ELSE CHOOSE i \in hits : \A j \in hits : i <= j

\* Faulty variant: the classifier reports no failure whatever the output holds.
DetectFailure_Blind(c) ==
  [failure |-> FALSE, message |-> None, retryable |-> FALSE]

\* RunExecutor._detect_failure on the combined content c: the rules are tried
\* in table order and the first whose pattern occurs decides.  The message is
\* the text extracted around the pattern, identified here by the pattern.
DetectFailure(c) ==
  LET i == FirstMatch(c)
  IN IF i = 0
       THEN [failure |-> FALSE, message |-> None, retryable |-> FALSE]
       ELSE [failure |-> TRUE, message |-> failure_patterns[i].pattern,
             retryable |-> failure_patterns[i].retryable]

\* run_store.update_run: a field passed as None is left as it is.  An exit
\* code is <<>> for None and <<c>> for the integer c; a timestamp is the
\* number of the write that set it, 0 for None.
Keep(old, new, none) == IF new = none THEN old ELSE new

\* Faulty variant: the status column is left out of the UPDATE statement.
UpdateRun_StatusDropped(st, setStarted, setFinished, code, err) ==
  LET now == Len(dbWrites) + 1
  IN /\ run' = [ status      |-> run.status,
                 started_at  |-> IF setStarted THEN now ELSE run.started_at,
                 finished_at |-> IF setFinished THEN now ELSE run.finished_at,
                 exit_code   |-> Keep(run.exit_code, code, << >>),
                 error       |-> Keep(run.error, err, NoError) ]
     /\ dbWrites' = Append(dbWrites, st)

UpdateRun(st, setStarted, setFinished, code, err) ==
  LET now == Len(dbWrites) + 1
  IN /\ run' = [ status      |-> st,
                 started_at  |-> IF setStarted THEN now ELSE run.started_at,
                 finished_at |-> IF setFinished THEN now ELSE run.finished_at,
                 exit_code   |-> Keep(run.exit_code, code, << >>),
                 error       |-> Keep(run.error, err, NoError) ]
     /\ dbWrites' = Append(dbWrites, st)

\* retry.py line 159: 2 ** attempt.
RECURSIVE Pow2(_)
Pow2(n) == IF n = 0 THEN 1 ELSE 2 * Pow2(n - 1)

NoProc == [state |-> "none", code |-> 0]

\* The WebSockets and the runs of the broadcaster.
Conns == 1..MaxConns
Runs == {RunId, "r2"}

\* No delete_run call has been made yet.
\* No call holds the thread of the event loop, or the lock.
NoCall == None
NoPoll == [pc |-> "sleep", due_runs |-> << >>, polls |-> 0, found |-> {},
           keys_failed |-> {}]
NoRetryCall ==
  [pc |-> "idle", config |-> << >>, attempt |-> 0, last_exception |-> << >>,
   failures |-> << >>, callbacks |-> 0, result |-> << >>, raised |-> << >>]
NoDelivery == [pc |-> "idle", connections |-> << >>, disconnected |-> << >>]
NoDelete == [pc |-> "idle", status |-> None, result |-> << >>]

\* No client has opened the stream yet.
NoStream ==
  [kind |-> None, pc |-> "idle", registered |-> FALSE, current |-> None,
   last_status |-> None, pos |-> 0, last |-> None, polled |-> 0,
   pushed |-> 0, late |-> FALSE]

\* No broadcast_run_event call has been made yet.
NoBroadcast ==
  [pc |-> "idle", run_id |-> None, event_type |-> None,
   data |-> << >>, connections |-> << >>, disconnected |-> << >>,
   called |-> << >>, dashCalled |-> << >>, failed |-> {}, raced |-> FALSE]

\* ----------------------------------------------------------------- Init
\* The state after construction; f tells whether the environment is one in
\* which the summary extraction, a broadcast or the notification may raise.
Start(f) ==
  /\ faulty = f
  /\ hasConfig \in BOOLEAN
  /\ hasOwner \in BOOLEAN
  /\ run = [status |-> QUEUED, started_at |-> 0, finished_at |-> 0,
            exit_code |-> << >>, error |-> NoError]
  /\ dbWrites = << >>
  /\ pc = "start"
  /\ attempt = 0
  /\ launches = 0
  /\ running_processes = {}
  /\ canceled_runs = {}
  /\ retry_states = << >>
  /\ proc = NoProc
  /\ content = {}
  /\ lastOut = {}
  /\ ownRetryable = TRUE
  /\ lastVerdict = "none"
  /\ status = None
  /\ error = NoError
  /\ exit_code = << >>
  /\ meta = << >>
  /\ events = << >>
  /\ notified = 0
  /\ cancel = [i \in Cancels |-> "idle"]
  /\ backoffCancel = << >>
  /\ sideFailed = FALSE
  /\ hungSubscriber = FALSE
  /\ sock = [c \in Conns |-> "new"]
  /\ topic = [c \in Conns |-> None]
  /\ run_connections = [r \in Runs |-> << >>]
  /\ dashboard_connections = << >>
  /\ inbox = [c \in Conns |-> << >>]
  /\ bc = NoBroadcast
  /\ logLen = 0
  /\ pending = << >>
  /\ stream = NoStream
  /\ logPc = "closed"
  /\ logAttempt = 0
  /\ logExists = FALSE
  /\ stdout_log = << >>
  /\ stdout_buffer = << >>
  /\ stdout_pos = 0
  /\ log_lines = << >>
  /\ last_progress = << >>
  /\ progress_events = << >>
  /\ deleter = NoDelete
  /\ row_deleted = FALSE
  /\ artifacts_deleted = FALSE
  /\ delay_call = << >>
  /\ classify_call = << >>
  /\ loop_thread = NoCall
  /\ subprocess = [r \in Runs |-> "none"]
  /\ executing = [r \in Runs |-> "start"]
  /\ canceling = [r \in Runs |-> "idle"]
  /\ grace_elapsed = 0
  /\ polled = [r \in Runs |-> 0]
  /\ lock = NoCall
  /\ subscriber = [c \in Conns |-> "new"]
  /\ subscribers = << >>
  /\ delivery = NoDelivery
  /\ sent = << >>
  /\ with_retry_call = NoRetryCall
  /\ scheduled = [r \in Runs |-> [scheduled_for |-> "future", status |-> QUEUED]]
  /\ handed = [r \in Runs |-> 0]
  /\ scheduler = NoPoll
  /\ metrics_call = << >>

Init == Start(FALSE)

\* ------------------------------------------------------------ execute_run

\* Faulty variant: the retry state of the run is left in the map.
ClearRetryState_Forgotten(run_id) == retry_states

\* RunExecutor._clear_retry_state: self._retry_states.pop(run_id, None).
ClearRetryState(run_id) == << >>

\* Faulty variant: the configuration check is skipped.
ConfigMissing_Ignored == FALSE

\* Line 266: "if run.config is None".
ConfigMissing == ~hasConfig

\* Faulty variant: the notification is dispatched whatever the outcome.
ShouldNotify_AnyStatus(st) == hasOwner

\* Line 521: "if run.user_id and status in (COMPLETED, FAILED)".
ShouldNotify(st) == hasOwner /\ st \in {COMPLETED, FAILED}

\* Faulty variant: the summary extraction is not wrapped in try/except.
Caught_SummaryPropagates(op) == op \in {"broadcast", "notify"}

\* The operations execute_run and cancel_run wrap in "try ... except
\* Exception" and only log: the summary extraction (lines 475-482), every
\* broadcast (309-316, 108-120, 507-518, 637-643) and the notification
\* dispatch (522-540, 559-568, 583-592).
Caught(op) == op \in {"summary", "broadcast", "notify"}

\* Whether an operation wrapped in "try" raises.
Raises == IF faulty THEN BOOLEAN ELSE {FALSE}

\* ws.py lines 84-88: broadcast_to_run awaits each send_text in turn, with
\* no timeout; the awaited broadcast returns when every send has returned.
BroadcastReturns == ~hungSubscriber

\* Lines 569-571: an exception no inner handler caught reaches the handler
\* "except Exception" of execute_run: the registration and the retry state
\* of the run are removed, then the FAILED update is awaited.
Escalate ==
  /\ running_processes' = running_processes \ {RunId}
  /\ retry_states' = ClearRetryState(RunId)
  /\ pc' = "unexpected_error"

\* An attempt that, judged by its own output alone, is a retryable failure.
OwnRetryableFailure(o, code) == code # 130 /\ DetectFailure(o).retryable

\* Lines 266-306: no configuration -> the FAILED update is awaited; otherwise
\* the artifact directory, config.json and command.txt are written and the
\* RUNNING update is awaited.
ExecStart ==
  /\ pc = "start"
  /\ pc' = IF ConfigMissing THEN "config_failed" ELSE "mark_running"
  /\ UNCHANGED << inputVars, otherVars, sideFailed, dbVars, attempt, launches, running_processes,
                  canceled_runs, retry_states, proc, content, histVars,
                  localVars, meta, events, notified, cancelVars >>

\* Lines 268-274 (configuration error) and 340-346 (canceled before an
\* attempt): the terminal update is written, the retry state is cleared,
\* execute_run returns.
ExecWriteAndReturn ==
  /\ pc \in {"config_failed", "canceled_before_attempt"}
  /\ IF pc = "config_failed"
       THEN UpdateRun(FAILED, FALSE, TRUE, << >>, Msg("No configuration provided", 0))
       ELSE UpdateRun(CANCELED, FALSE, TRUE, << >>, NoError)
  /\ retry_states' = ClearRetryState(RunId)
  /\ pc' = "done"
  /\ UNCHANGED << inputVars, otherVars, sideFailed, attempt, launches, running_processes,
                  canceled_runs, proc, content, histVars, localVars, meta,
                  events, notified, cancelVars >>

\* Lines 301-306: update_run(status=RUNNING, started_at=now); then the status
\* broadcast is awaited.
ExecMarkRunning ==
  /\ pc = "mark_running"
  /\ UpdateRun(RUNNING, TRUE, FALSE, << >>, NoError)
  /\ pc' = "broadcast_status"
  /\ UNCHANGED << inputVars, otherVars, sideFailed, attempt, launches, running_processes,
                  canceled_runs, retry_states, proc, content, histVars,
                  localVars, meta, events, notified, cancelVars >>

\* RunExecutor._get_retry_state: a fresh RetryState (current_attempt = 0).
NewRetryState == << [current_attempt |-> 0, last_error |-> None] >>

\* Lines 370-395: the log files are opened ("w" truncates on the first
\* attempt, "a" appends afterwards), the subprocess is started and registered
\* and its exit is awaited; Popen raising FileNotFoundError enters the
\* handler of lines 545-548.  rs is the retry state of the run (line 330).
Launch(a, rs) ==
  /\ content' = IF a = 0 THEN {} ELSE content
  /\ lastVerdict' = "none"
  /\ lastOut' = {}
  /\ ownRetryable' = IF a = 0 THEN TRUE
                     ELSE ownRetryable /\ OwnRetryableFailure(lastOut, exit_code[1])
  /\ \/ /\ proc' = [state |-> "running", code |-> 0]
        /\ running_processes' = running_processes \cup {RunId}
        /\ launches' = launches + 1
        /\ pc' = "wait"
        /\ retry_states' = rs
     \/ /\ running_processes' = running_processes \ {RunId}
        /\ retry_states' = ClearRetryState(RunId)
        /\ pc' = "launch_error"
        /\ UNCHANGED << proc, launches >>

\* Lines 309-346 and, on the first attempt, 370-395: the status event is
\* broadcast, the retry state is created and the loop is entered with
\* attempt 0: canceled check, then launch.
ExecBroadcastStatus ==
  /\ pc = "broadcast_status"
  /\ BroadcastReturns
  /\ events' = Append(events, "status")
  /\ \E raised \in Raises :
       /\ sideFailed' = (sideFailed \/ raised)
       /\ IF raised /\ ~Caught("broadcast")
            THEN /\ Escalate
                 /\ UNCHANGED << attempt, canceled_runs, launches, proc,
                                 content, histVars >>
            ELSE /\ attempt' = 0
                 /\ IF RunId \in canceled_runs
                      THEN /\ canceled_runs' = canceled_runs \ {RunId}
                           /\ retry_states' = NewRetryState
                           /\ pc' = "canceled_before_attempt"
                           /\ UNCHANGED << launches, running_processes, proc,
                                           content, histVars >>
                      ELSE /\ Launch(0, NewRetryState)
                           /\ UNCHANGED canceled_runs
  /\ UNCHANGED << inputVars, otherVars, dbVars, localVars, meta, notified, cancelVars >>

\* Faulty variant: the event carries the number of the attempt that failed.
RetryingEvent_PreviousAttempt ==
  [attempt |-> attempt - 1, max_retries |-> MAX_RETRIES,
   delay |-> BASE_DELAY * Pow2(attempt - 1),
   error |-> retry_states[1].last_error]

\* Lines 349-366 and 108-116: the data of the retrying event execute_run
\* broadcasts at the top of iteration attempt >= 1: the attempt, the maximum,
\* the delay of calculate_delay(attempt - 1), here before jitter, and
\* retry_state.last_error.
RetryingEvent ==
  [attempt |-> attempt, max_retries |-> MAX_RETRIES,
   delay |-> BASE_DELAY * Pow2(attempt - 1),
   error |-> retry_states[1].last_error]

\* Lines 359-368: the retrying event is broadcast, then the backoff sleep.
ExecBroadcastRetry ==
  /\ pc = "retrying"
  /\ BroadcastReturns
  /\ events' = Append(events, "retrying")
  /\ \E raised \in Raises :
       /\ sideFailed' = (sideFailed \/ raised)
       /\ IF raised /\ ~Caught("broadcast")
            THEN Escalate
            ELSE pc' = "sleep" /\ UNCHANGED << running_processes, retry_states >>
  /\ UNCHANGED << inputVars, otherVars, dbVars, attempt, launches,
                  canceled_runs, proc, content, histVars,
                  localVars, meta, notified, cancelVars >>

\* Lines 368-395: the sleep is over, the next attempt is launched.
ExecSleepDone ==
  /\ pc = "sleep"
  /\ Launch(attempt, retry_states)
  /\ UNCHANGED << inputVars, otherVars, sideFailed, dbVars, attempt, canceled_runs, localVars, meta,
                  events, notified, cancelVars >>

\* The subprocess of the current attempt exits by itself with any exit code
\* and any output; its output is in the log files when it has exited.
ProcessExit ==
  /\ proc.state = "running"
  /\ \E c \in ExitCodes, o \in Outputs :
       /\ proc' = [state |-> "exited", code |-> c]
       /\ content' = content \cup o
       /\ lastOut' = o
  /\ UNCHANGED << inputVars, otherVars, sideFailed, dbVars, pc, attempt, launches, running_processes,
                  canceled_runs, retry_states, ownRetryable, lastVerdict,
                  localVars, meta, events, notified, cancelVars >>

\* Faulty variant: the canceled flag is not looked at after the exit.
WasCanceled_Never(run_id) == FALSE

\* Line 403: "if run.run_id in self._canceled_runs", right after the exit.
WasCanceled(run_id) == run_id \in canceled_runs

\* Faulty variant: exit code 130 is classified like any other code.
Interrupted_Never(code) == FALSE

\* Line 440: "elif exit_code == 130".
Interrupted(code) == code = 130

\* Faulty variant: off by one, "attempt <= self.MAX_RETRIES".
AttemptsRemain_OffByOne(a) == a <= MAX_RETRIES

\* Line 447: "attempt < self.MAX_RETRIES".
AttemptsRemain(a) == a < MAX_RETRIES

\* Faulty variant: the attempt count is never appended.
AnnotateError_Never(err, a) == err

\* Lines 462-463: the attempt count is appended when retries occurred.
AnnotateError(err, a) == IF a > 0 THEN Msg(err.text, a + 1) ELSE err

\* Lines 472-494: the loop was left by break; the summary is extracted,
\* meta.json is written and the terminal update is awaited.
Finish(st, err, verdict, code) ==
  /\ status' = st
  /\ error' = err
  /\ lastVerdict' = verdict
  /\ \E raised \in Raises :
       /\ sideFailed' = (sideFailed \/ raised)
       /\ IF raised /\ ~Caught("summary")
            THEN /\ retry_states' = ClearRetryState(RunId)
                 /\ pc' = "unexpected_error"
                 /\ UNCHANGED meta
            ELSE /\ meta' = << [status |-> st, exit_code |-> code,
                                retry_attempts |-> retry_states[1].current_attempt] >>
                 /\ pc' = "final_write"
                 /\ UNCHANGED retry_states
  /\ UNCHANGED << attempt, canceled_runs >>

\* Lines 397-470 (and up to the await of 496, or to the await of the next
\* iteration): the wait for the exit returns.  The registration is removed;
\* a canceled run writes meta.json and returns; otherwise the accumulated
\* content of the log files is classified together with the exit code.
ExecProcessExited ==
  /\ pc = "wait"
  /\ proc.state = "exited"
  /\ LET code == proc.code
         det == DetectFailure(content)
     IN /\ exit_code' = << code >>
        /\ running_processes' = running_processes \ {RunId}
        /\ proc' = NoProc
        /\ IF WasCanceled(RunId)
             THEN /\ canceled_runs' = canceled_runs \ {RunId}
                  /\ meta' = << [status |-> CANCELED, exit_code |-> code,
                                 retry_attempts |-> attempt] >>
                  /\ retry_states' = ClearRetryState(RunId)
                  /\ pc' = "done"
                  /\ UNCHANGED << attempt, status, error, lastVerdict, sideFailed >>
             ELSE IF code = 0 /\ ~det.failure
                    THEN Finish(COMPLETED, NoError, "completed", code)
             ELSE IF Interrupted(code)
                    THEN Finish(CANCELED, Msg("Run was canceled", 0), "canceled", code)
             ELSE IF det.retryable /\ AttemptsRemain(attempt)
                    THEN /\ retry_states' =
                              << [current_attempt |-> retry_states[1].current_attempt + 1,
                                  last_error |-> det.message] >>
                         /\ error' = Msg(det.message, 0)
                         /\ lastVerdict' = "retry"
                         /\ attempt' = attempt + 1
                         /\ IF RunId \in canceled_runs
                              THEN /\ canceled_runs' = canceled_runs \ {RunId}
                                   /\ pc' = "canceled_before_attempt"
                              ELSE /\ pc' = "retrying"
                                   /\ UNCHANGED canceled_runs
                         /\ UNCHANGED << status, meta, sideFailed >>
             ELSE Finish(FAILED,
                         AnnotateError(IF det.failure THEN Msg(det.message, 0)
                                       ELSE Msg("Process exited", 0), attempt),
                         "failed", code)
  /\ UNCHANGED << inputVars, otherVars, dbVars, launches, content, lastOut, ownRetryable,
                  events, notified, cancelVars >>

\* Lines 496-504: the terminal update of the classified outcome.
ExecFinalWrite ==
  /\ pc = "final_write"
  /\ UpdateRun(status, FALSE, TRUE, exit_code, error)
  /\ pc' = "final_broadcast"
  /\ UNCHANGED << inputVars, otherVars, sideFailed, attempt, launches, running_processes,
                  canceled_runs, retry_states, proc, content, histVars,
                  localVars, meta, events, notified, cancelVars >>

\* Lines 506-543: the terminal event is broadcast; an owned run that ended
\* COMPLETED or FAILED awaits the notification, any other run clears its
\* retry state and returns.
ExecFinalBroadcast ==
  /\ pc = "final_broadcast"
  /\ BroadcastReturns
  /\ events' = Append(events, status)
  /\ \E raised \in Raises :
       /\ sideFailed' = (sideFailed \/ raised)
       /\ IF raised /\ ~Caught("broadcast")
            THEN Escalate
            ELSE /\ IF ShouldNotify(status)
                      THEN pc' = "notify" /\ UNCHANGED retry_states
                      ELSE pc' = "done" /\ retry_states' = ClearRetryState(RunId)
                 /\ UNCHANGED running_processes
  /\ UNCHANGED << inputVars, otherVars, dbVars, attempt, launches,
                  canceled_runs, proc, content, histVars, localVars, meta,
                  notified, cancelVars >>

\* Lines 529-543, 559-568 and 583-592: the notification is dispatched, the
\* retry state is cleared, execute_run returns.
ExecNotify ==
  /\ pc = "notify"
  /\ notified' = notified + 1
  /\ \E raised \in Raises :
       /\ sideFailed' = (sideFailed \/ raised)
       /\ IF raised /\ ~Caught("notify")
            THEN Escalate
            ELSE /\ retry_states' = ClearRetryState(RunId)
                 /\ pc' = "done"
                 /\ UNCHANGED running_processes
  /\ UNCHANGED << inputVars, otherVars, dbVars, attempt, launches,
                  canceled_runs, proc, content, histVars, localVars, meta,
                  events, cancelVars >>

\* Lines 549-557 and 573-581: the FAILED update of the handler of
\* FileNotFoundError, and of the handler of any other exception.
ExecLaunchErrorWrite ==
  /\ pc \in {"launch_error", "unexpected_error"}
  /\ UpdateRun(FAILED, FALSE, TRUE, << >>,
               Msg(IF pc = "launch_error" THEN "Command not found"
                   ELSE "Unexpected error", 0))
  /\ pc' = IF hasOwner THEN "notify" ELSE "done"
  /\ UNCHANGED << inputVars, otherVars, sideFailed, attempt, launches, running_processes,
                  canceled_runs, retry_states, proc, content, histVars,
                  localVars, meta, events, notified, cancelVars >>

\* -------------------------------------------------------------- cancel_run

\* Faulty variant: cancel_run does not return early when no process is registered.
ProcessRegistered_Always(run_id) == TRUE

\* Lines 604-605: the lookup of the process registered for the run.
ProcessRegistered(run_id) == run_id \in running_processes

\* Faulty variant: cancel_run leaves the registration in place.
PopProcess_Forgotten(run_id) == running_processes

\* Line 628: self._running_processes.pop(run_id, None).
PopProcess(run_id) == running_processes \ {run_id}

\* Lines 604-628, one step of the event loop.  Without a registered process
\* the call returns False.  Otherwise the run is marked canceled, then the
\* process is terminated: a process that has already exited stays as it is,
\* a running one exits within the grace period or is killed (any exit code,
\* any output), or terminate raises OSError and the process keeps running.
\* The registration is removed and the CANCELED update is awaited.
CancelRun(i) ==
  /\ cancel[i] = "idle"
  /\ IF i = 1 THEN TRUE ELSE cancel[i - 1] # "idle"
  /\ IF ~ProcessRegistered(RunId)
       THEN /\ cancel' = [cancel EXCEPT ![i] = "false"]
            /\ UNCHANGED << canceled_runs, running_processes, proc, content,
                            lastOut >>
       ELSE /\ canceled_runs' = canceled_runs \cup {RunId}
            /\ \/ UNCHANGED << proc, content, lastOut >>
               \/ /\ proc.state = "running"
                  /\ \E c \in ExitCodes, o \in Outputs :
                       /\ proc' = [state |-> "exited", code |-> c]
                       /\ content' = content \cup o
                       /\ lastOut' = o
            /\ running_processes' = PopProcess(RunId)
            /\ cancel' = [cancel EXCEPT ![i] = "persist"]
  /\ backoffCancel' = IF pc = "sleep" /\ backoffCancel = << >>
                        THEN << launches >> ELSE backoffCancel
  /\ UNCHANGED << inputVars, otherVars, sideFailed, dbVars, pc, attempt, launches, retry_states,
                  ownRetryable, lastVerdict, localVars, meta, events, notified >>

\* Lines 630-634: update_run(status=CANCELED, finished_at=now).
CancelPersist(i) ==
  /\ cancel[i] = "persist"
  /\ UpdateRun(CANCELED, FALSE, TRUE, << >>, NoError)
  /\ cancel' = [cancel EXCEPT ![i] = "broadcast"]
  /\ UNCHANGED << inputVars, otherVars, sideFailed, pc, attempt, launches, running_processes,
                  canceled_runs, retry_states, proc, content, histVars,
                  localVars, meta, events, notified, backoffCancel >>

\* Lines 636-646: the canceled event is broadcast and True is returned.
CancelBroadcast(i) ==
  /\ cancel[i] = "broadcast"
  /\ BroadcastReturns
  /\ events' = Append(events, CANCELED)
  /\ \E raised \in Raises :
       /\ sideFailed' = (sideFailed \/ raised)
       /\ cancel' = [cancel EXCEPT ![i] = IF raised /\ ~Caught("broadcast")
                                            THEN "raised" ELSE "true"]
  /\ UNCHANGED << inputVars, otherVars, dbVars, pc, attempt, launches, running_processes,
                  canceled_runs, retry_states, proc, content, histVars,
                  localVars, meta, notified, backoffCancel >>

\* ------------------------------------------------------------ specification
Next ==
  \/ ExecStart
  \/ ExecWriteAndReturn
  \/ ExecMarkRunning
  \/ ExecBroadcastStatus
  \/ ExecBroadcastRetry
  \/ ExecSleepDone
  \/ ProcessExit
  \/ ExecProcessExited
  \/ ExecFinalWrite
  \/ ExecFinalBroadcast
  \/ ExecNotify
  \/ ExecLaunchErrorWrite
  \/ \E i \in Cancels : CancelRun(i)
  \/ \E i \in Cancels : CancelPersist(i)
  \/ \E i \in Cancels : CancelBroadcast(i)

Spec == Init /\ [][Next]_vars

TypeOK ==
  /\ run.status \in {QUEUED, RUNNING} \cup TerminalStatuses
  /\ attempt \in 0..MAX_RETRIES
  /\ launches \in 0..(MAX_RETRIES + 1)
  /\ running_processes \subseteq {RunId}
  /\ canceled_runs \subseteq {RunId}
  /\ Len(retry_states) <= 1
  /\ content \subseteq OutputPatterns

\* The scheduling the event loop guarantees: a task that can take its next
\* step takes it, a launched subprocess exits, an awaited repository write or
\* broadcast returns.  Nothing obliges anybody to call cancel_run.
FairSpec ==
  /\ Spec
  /\ WF_vars(ExecStart) /\ WF_vars(ExecWriteAndReturn) /\ WF_vars(ExecMarkRunning)
  /\ WF_vars(ExecBroadcastStatus) /\ WF_vars(ExecBroadcastRetry)
  /\ WF_vars(ExecSleepDone) /\ WF_vars(ProcessExit) /\ WF_vars(ExecProcessExited)
  /\ WF_vars(ExecFinalWrite) /\ WF_vars(ExecFinalBroadcast) /\ WF_vars(ExecNotify)
  /\ WF_vars(ExecLaunchErrorWrite)
  /\ \A i \in Cancels : WF_vars(CancelPersist(i)) /\ WF_vars(CancelBroadcast(i))

\* The executor in an environment where the summary extraction, a broadcast
\* or the notification dispatch may raise.
FaultInit == Start(TRUE)

FaultSpec == FaultInit /\ [][Next]_vars

\* -------------------------------------------------------- ConnectionManager
\* ws.py: the registry of WebSocket connections and broadcast_run_event.
\* The lock is never held across an await, so taking it never suspends the
\* caller; the steps of a broadcast are its sends (each "await send_text")
\* and, as a step of its own, the cleanup that follows the last send of a
\* phase together with the snapshot of the next phase.

Dashboard == "dashboard"
Topics == Runs \cup {Dashboard}

\* Events the executor broadcasts (executor.py lines 312-315 and 510-516):
\* the event type and the data, a dictionary.
Events ==
  { [type |-> "status", data |-> [status |-> RUNNING]],
    [type |-> COMPLETED, data |-> [exit_code |-> 0, retry_attempts |-> 0]] }

Range(seq) == {seq[i] : i \in DOMAIN seq}

\* Lines 79 and 101: json.dumps({"event": event_type, "data": data}).
Message(event_type, data) == [event |-> event_type, data |-> data]

\* Line 380: f"run_{event_type}".
RunPrefixed(event_type) ==
  CASE event_type = "status" -> "run_status"
    [] event_type = "retrying" -> "run_retrying"
    [] event_type = COMPLETED -> "run_completed"
    [] event_type = FAILED -> "run_failed"
    [] event_type = CANCELED -> "run_canceled"

\* Line 379: {"run_id": run_id, **data}; a key of data comes last and wins.
DashboardData(run_id, data) ==
  [k \in {"run_id"} \cup DOMAIN data |->
     IF k \in DOMAIN data THEN data[k] ELSE run_id]

\* list.remove(conn) on a list that holds a connection at most once.
Remove(list, conn) == SelectSeq(list, LAMBDA x : x # conn)

\* Lines 40-54, connect_to_run and connect_to_dashboard: the WebSocket is
\* accepted and appended to the list of its run, or of the dashboard.
\* WebSockets are interchangeable: they are numbered in the order in which
\* they connect.
Connect(c, t) ==
  /\ sock[c] = "new"
  /\ IF c = 1 THEN TRUE ELSE sock[c - 1] # "new"
  /\ sock' = [sock EXCEPT ![c] = "open"]
  /\ topic' = [topic EXCEPT ![c] = t]
  /\ IF t = Dashboard
       THEN /\ dashboard_connections' = Append(dashboard_connections, c)
            /\ UNCHANGED run_connections
       ELSE /\ run_connections' = [run_connections EXCEPT ![t] = Append(@, c)]
            /\ UNCHANGED dashboard_connections
  /\ UNCHANGED << inbox, bc, execVars, slowVars, streamVars, restVars >>

\* The client of an open WebSocket goes away; a send_text to it raises from
\* now on.  Its handler has not yet run its "finally" clause.
ClientCloses(c) ==
  /\ sock[c] = "open"
  /\ sock' = [sock EXCEPT ![c] = "closed"]
  /\ UNCHANGED << topic, run_connections, dashboard_connections, inbox, bc,
                  execVars, slowVars, streamVars, restVars >>

\* Lines 56-75, disconnect_from_run and disconnect_from_dashboard, called in
\* the "finally" clause of the handler (lines 306-307, 366-367): the
\* WebSocket is removed from its list, ValueError is swallowed, the handler
\* returns and the WebSocket is closed.
Unsubscribe(c) ==
  /\ sock[c] \in {"open", "closed"}
  /\ sock' = [sock EXCEPT ![c] = "gone"]
  /\ IF topic[c] = Dashboard
       THEN /\ dashboard_connections' = Remove(dashboard_connections, c)
            /\ UNCHANGED run_connections
       ELSE /\ run_connections' =
                 [run_connections EXCEPT ![topic[c]] = Remove(@, c)]
            /\ UNCHANGED dashboard_connections
  /\ UNCHANGED << topic, inbox, bc, execVars, slowVars, streamVars, restVars >>

\* Faulty variant: the snapshot holds the connections of every run.
RunConnections_AnyRun(run_id) == run_connections[RunId] \o run_connections["r2"]

\* Lines 80-81: self._run_connections.get(run_id, []).copy(), under the lock.
RunConnections(run_id) == run_connections[run_id]

\* Lines 370-380 and 77-81: broadcast_run_event(run_id, event_type, data)
\* is called; broadcast_to_run takes its snapshot.
BroadcastStart(r, t, d) ==
  /\ bc.pc = "idle"
  /\ bc' = [pc |-> "run_send", run_id |-> r, event_type |-> t, data |-> d,
            connections |-> RunConnections(r), disconnected |-> << >>,
            called |-> run_connections[r], dashCalled |-> << >>,
            failed |-> {}, raced |-> FALSE]
  /\ UNCHANGED << sock, topic, run_connections, dashboard_connections, inbox,
                  execVars, slowVars, streamVars, restVars >>

\* The message of the phase the broadcast is in.
RunMessage == Message(bc.event_type, bc.data)
DashboardMessage ==
  Message(RunPrefixed(bc.event_type), DashboardData(bc.run_id, bc.data))

\* Lines 84-88 and 106-110, one iteration: the message is sent to the next
\* connection of the snapshot; a send that raises puts the connection on the
\* disconnected list.
BroadcastSend ==
  /\ bc.pc \in {"run_send", "dash_send"}
  /\ bc.connections # << >>
  /\ LET c == Head(bc.connections)
         msg == IF bc.pc = "run_send" THEN RunMessage ELSE DashboardMessage
     IN IF sock[c] = "open"
          THEN /\ inbox' = [inbox EXCEPT ![c] = Append(@, msg)]
               /\ bc' = [bc EXCEPT !.connections = Tail(@)]
          ELSE /\ bc' = [bc EXCEPT !.connections = Tail(@),
                                   !.disconnected = Append(@, c),
                                   !.failed = @ \cup {c}]
               /\ UNCHANGED inbox
  /\ UNCHANGED << sock, topic, run_connections, dashboard_connections,
                  execVars, slowVars, streamVars, restVars >>

\* Faulty variant: list.remove is not guarded, a missing element raises.
RemoveHandled_Unguarded(present) == present

\* Lines 93-97 and 115-119: "try: ....remove(conn) except ValueError: pass";
\* the removal completes whether or not the connection is still listed.
RemoveHandled(present) == TRUE

RemoveAll(list, conns) == SelectSeq(list, LAMBDA x : x \notin conns)

\* Lines 90-97 and 99-103, or 112-119: after the last send of a phase the
\* disconnected connections are removed from the list; then
\* broadcast_to_dashboard takes its snapshot, or broadcast_run_event returns.
BroadcastCleanup ==
  /\ bc.pc \in {"run_send", "dash_send"}
  /\ bc.connections = << >>
  /\ LET list == IF bc.pc = "run_send" THEN run_connections[bc.run_id]
                 ELSE dashboard_connections
         gone == Range(bc.disconnected)
         cleaned == RemoveAll(list, gone)
         raced == bc.raced \/ gone \ Range(list) # {}
     IN IF \E c \in gone : ~RemoveHandled(c \in Range(list))
          THEN /\ bc' = [bc EXCEPT !.pc = "raised"]
               /\ UNCHANGED << run_connections, dashboard_connections >>
          ELSE IF bc.pc = "run_send"
                 THEN /\ run_connections' =
                           [run_connections EXCEPT ![bc.run_id] = cleaned]
                      /\ UNCHANGED dashboard_connections
                      /\ bc' = [bc EXCEPT !.pc = "dash_send",
                                          !.connections = dashboard_connections,
                                          !.dashCalled = dashboard_connections,
                                          !.disconnected = << >>,
                                          !.raced = raced]
                 ELSE /\ dashboard_connections' = cleaned
                      /\ UNCHANGED run_connections
                      /\ bc' = [bc EXCEPT !.pc = "done", !.disconnected = << >>,
                                          !.raced = raced]
  /\ UNCHANGED << sock, topic, inbox, execVars, slowVars, streamVars, restVars >>

BroadcastNext ==
  \/ \E c \in Conns, t \in Topics : Connect(c, t)
  \/ \E c \in Conns : ClientCloses(c)
  \/ \E c \in Conns : Unsubscribe(c)
  \/ \E r \in Runs, e \in Events : BroadcastStart(r, e.type, e.data)
  \/ BroadcastSend
  \/ BroadcastCleanup

\* The broadcaster alone: WebSockets connect, go away and are unsubscribed
\* while a broadcast_run_event call is served.  The executor does not move;
\* its run is one that has a configuration.
BroadcastInit == Init /\ hasConfig /\ hasOwner

BroadcastSpec == BroadcastInit /\ [][BroadcastNext]_vars

BroadcastTypeOK ==
  /\ \A c \in Conns : sock[c] \in {"new", "open", "closed", "gone"}
  /\ \A r \in Runs : Range(run_connections[r]) \subseteq Conns
  /\ Range(dashboard_connections) \subseteq Conns
  /\ bc.pc \in {"idle", "run_send", "dash_send", "done"}

\* -------------------------------------------------------------- live streams
\* runs.py stream_run_events.event_generator (SSE) and ws.py
\* websocket_run_events (WebSocket): one stream that stays connected to the
\* run while the run goes through its life.  A stream polls the repository
\* and the log file; a WebSocket is, in addition, registered with the
\* broadcaster and receives what the executor broadcasts.  The run record
\* is not deleted while it is streamed.
\*
\* In this specification the executor is reduced to what a stream can see of
\* it: its repository writes, its broadcasts and the lines its subprocess
\* logs.  The outcome of an attempt is any outcome; pc is the position of
\* execute_run, or of the cancel_run that ends the run.  A heartbeat is
\* recorded as the last event received, not counted.

StreamKinds == {"sse", "ws"}

\* The variables of the executor a stream does not see.
hiddenVars == << hasConfig, hasOwner, faulty, launches,
                 running_processes, canceled_runs, retry_states, proc,
                 content, lastOut, ownRetryable, lastVerdict, status, error,
                 exit_code, meta, notified, cancel, backoffCancel,
                 sideFailed >>

\* ws.py lines 80-81: the snapshot broadcast_to_run takes of the connections
\* of the run, here whether the WebSocket of the stream is among them.
Snapshot(event_type) == << [type |-> event_type, to |-> stream.registered] >>

\* executor.py lines 266-306: the configuration error is persisted and
\* execute_run returns, or RUNNING is persisted.
LifeStart ==
  /\ pc = "start"
  /\ IF ConfigMissing
       THEN /\ UpdateRun(FAILED, FALSE, TRUE, << >>,
                         Msg("No configuration provided", 0))
            /\ pc' = "done"
       ELSE /\ UpdateRun(RUNNING, TRUE, FALSE, << >>, NoError)
            /\ pc' = "status_call"
  /\ UNCHANGED << attempt, events, logLen, pending, stream, hiddenVars, slowVars,
                  bcastVars,
                  restVars >>

\* executor.py lines 309-312, 507-510 and 636-638: the awaited update has
\* returned and the broadcast function is called with the event of the
\* update: "status", the terminal status, "canceled".
LifeBroadcastCall ==
  /\ pc \in {"status_call", "final_call", "cancel_call"}
  /\ pending' = Snapshot(IF pc = "status_call" THEN "status" ELSE run.status)
  /\ pc' = IF pc = "status_call" THEN "broadcast_status"
           ELSE IF pc = "final_call" THEN "final_broadcast"
           ELSE "cancel_broadcast"
  /\ UNCHANGED << attempt, run, dbWrites, events, logLen, stream, hiddenVars, slowVars,
                  bcastVars,
                  restVars >>

\* ws.py lines 84-88: the event is sent to the WebSocket of the snapshot; a
\* WebSocket whose handler has returned is closed and the send raises.
LifeBroadcastSend ==
  /\ pending # << >>
  /\ pending[1].to
  /\ pending' = << [pending[1] EXCEPT !.to = FALSE] >>
  /\ IF stream.pc = "ended"
       THEN UNCHANGED stream
       ELSE stream' = [stream EXCEPT
                         !.last = pending[1].type,
                         !.pushed = IF pending[1].type \in TerminalStatuses
                                      THEN @ + 1 ELSE @]
  /\ UNCHANGED << attempt, run, dbWrites, events, pc, logLen, hiddenVars, slowVars,
                  bcastVars,
                  restVars >>

\* The awaited broadcast returns.  After the status event and after the
\* backoff sleep the next attempt is launched, or the launch raises
\* FileNotFoundError (executor.py lines 370-395, 545-548); after a terminal
\* event execute_run, or cancel_run, returns (lines 520-543, 645-646).
LifeBroadcastReturns ==
  /\ pending # << >>
  /\ ~pending[1].to
  /\ pending' = << >>
  /\ events' = Append(events, pending[1].type)
  /\ IF pc \in {"broadcast_status", "retrying"}
       THEN pc' \in {"wait", "launch_error"}
       ELSE pc' = "done"
  /\ UNCHANGED << attempt, run, dbWrites, logLen, stream, hiddenVars, slowVars,
                  bcastVars,
                  restVars >>

\* executor.py lines 549-557: the FAILED update of the launch error; no
\* event is broadcast.
LifeLaunchError ==
  /\ pc = "launch_error"
  /\ UpdateRun(FAILED, FALSE, TRUE, << >>, Msg("Command not found", 0))
  /\ pc' = "done"
  /\ UNCHANGED << attempt, events, logLen, pending, stream, hiddenVars, slowVars,
                  bcastVars,
                  restVars >>

\* The subprocess of the attempt writes a line to stdout.log.
LifeOutput ==
  /\ pc = "wait"
  /\ logLen < MaxLogLines
  /\ logLen' = logLen + 1
  /\ UNCHANGED << attempt, run, dbWrites, events, pc, pending, stream, hiddenVars,
                  slowVars, bcastVars,
                  restVars >>

\* executor.py lines 397-504 and 108-116: the attempt ends.  Its outcome is
\* persisted, or the attempt is retried and the retrying event is broadcast.
LifeAttemptEnds ==
  /\ pc = "wait"
  /\ \/ /\ \E st \in TerminalStatuses :
             UpdateRun(st, FALSE, TRUE, << 0 >>, NoError)
        /\ pc' = "final_call"
        /\ UNCHANGED << pending, attempt >>
     \/ /\ attempt < MAX_RETRIES
        /\ attempt' = attempt + 1
        /\ pc' = "retrying"
        /\ pending' = Snapshot("retrying")
        /\ UNCHANGED << run, dbWrites >>
  /\ UNCHANGED << events, logLen, stream, hiddenVars, slowVars, bcastVars,
                  restVars >>

\* executor.py lines 604-634: cancel_run finds the process of the attempt
\* and persists CANCELED; execute_run returns without a write.
LifeCancel ==
  /\ pc = "wait"
  /\ UpdateRun(CANCELED, FALSE, TRUE, << >>, NoError)
  /\ pc' = "cancel_call"
  /\ UNCHANGED << attempt, events, logLen, pending, stream, hiddenVars, slowVars,
                  bcastVars,
                  restVars >>

\* What the reduced executor above relies on, checked on the executor of
\* Spec: a terminal status, once persisted, is not replaced; a terminal
\* event is passed to the broadcaster when its status is the persisted one,
\* any other event while the run is persisted as RUNNING.
LifecycleAbstraction ==
  [][/\ run.status \in TerminalStatuses => run'.status = run.status
     /\ events' # events =>
          LET e == events'[Len(events')]
          IN  IF e \in TerminalStatuses THEN run.status = e
                                        ELSE run.status = RUNNING]_vars

\* The variables of the executor and of the broadcaster a step of the
\* stream leaves alone.
streamFrame == << run, dbWrites, events, pc, attempt, logLen, hiddenVars, slowVars,
                  bcastVars,
                  restVars >>

\* A terminal event has been passed to the broadcaster, or is being sent.
TerminalEmitted ==
  \/ \E k \in DOMAIN events : events[k] \in TerminalStatuses
  \/ pending # << >> /\ pending[1].type \in TerminalStatuses

\* runs.py lines 644-657 and ws.py lines 172-175: a client opens the stream;
\* get_run finds the run.
StreamOpen(k) ==
  /\ stream.pc = "idle"
  /\ stream' = [stream EXCEPT !.kind = k, !.current = run.status,
                              !.pc = IF k = "ws" THEN "connect" ELSE "poll"]
  /\ UNCHANGED << pending, streamFrame >>

\* ws.py lines 177-197: connect_to_run registers the WebSocket, the initial
\* status event is sent.
WsRegister ==
  /\ stream.pc = "connect"
  /\ stream' = [stream EXCEPT !.registered = TRUE, !.last = "status",
                              !.late = TerminalEmitted, !.pc = "poll"]
  /\ UNCHANGED << pending, streamFrame >>

\* runs.py lines 659-667 and ws.py lines 199-219: the sleep, or the wait
\* for a client message, is over; get_run reads the run.
StreamPoll ==
  /\ stream.pc = "poll"
  /\ stream' = [stream EXCEPT !.current = run.status, !.pc = "status"]
  /\ UNCHANGED << pending, streamFrame >>

\* runs.py lines 669-676 and ws.py lines 221-238: a status event is sent
\* when the status read differs from the last one sent by the loop (the
\* WebSocket loop also mirrors it to the dashboard connections).
StreamStatus ==
  /\ stream.pc = "status"
  /\ stream' = IF stream.current # stream.last_status
                 THEN [stream EXCEPT !.last_status = stream.current,
                                     !.last = "status", !.pc = "tail"]
                 ELSE [stream EXCEPT !.pc = "tail"]
  /\ UNCHANGED << pending, streamFrame >>

\* runs.py lines 677-698 and ws.py lines 240-263: the new lines of the log
\* are read from the last position and sent as log_line events.
StreamTail ==
  /\ stream.pc = "tail"
  /\ stream' = IF logLen > stream.pos
                 THEN [stream EXCEPT !.pos = logLen, !.last = "log_line",
                                     !.pc = "terminal"]
                 ELSE [stream EXCEPT !.pc = "terminal"]
  /\ UNCHANGED << pending, streamFrame >>

\* Faulty variant: the canceled branch sends a failed event.
TerminalEvent_CanceledAsFailed(st) == IF st = COMPLETED THEN COMPLETED ELSE FAILED

\* runs.py lines 700-717 and ws.py lines 265-291: the event sent for the
\* terminal status read: completed, failed or canceled.
TerminalEvent(st) ==
  IF st = COMPLETED THEN COMPLETED ELSE IF st = FAILED THEN FAILED ELSE CANCELED

\* runs.py lines 700-728 and ws.py lines 265-300: when the status read is
\* terminal the terminal event is sent and the loop is left; otherwise a
\* heartbeat is sent every fifth iteration and the loop goes on.
StreamTerminal ==
  /\ stream.pc = "terminal"
  /\ IF stream.current \in TerminalStatuses
       THEN stream' = [stream EXCEPT
                         !.last = TerminalEvent(stream.current),
                         !.polled = @ + 1,
                         !.pc = IF stream.kind = "ws" THEN "finally" ELSE "ended"]
       ELSE \E beat \in BOOLEAN :
              stream' = [stream EXCEPT
                           !.last = IF beat THEN "heartbeat" ELSE @,
                           !.pc = "poll"]
  /\ UNCHANGED << pending, streamFrame >>

\* ws.py lines 306-307: disconnect_from_run in the "finally" clause; the
\* handler returns and the WebSocket is closed.
WsFinally ==
  /\ stream.pc = "finally"
  /\ stream' = [stream EXCEPT !.registered = FALSE, !.pc = "ended"]
  /\ UNCHANGED << pending, streamFrame >>

StreamNext ==
  \/ LifeStart
  \/ LifeBroadcastCall
  \/ LifeBroadcastSend
  \/ LifeBroadcastReturns
  \/ LifeLaunchError
  \/ LifeOutput
  \/ LifeAttemptEnds
  \/ LifeCancel
  \/ \E k \in StreamKinds : StreamOpen(k)
  \/ WsRegister
  \/ StreamPoll
  \/ StreamStatus
  \/ StreamTail
  \/ StreamTerminal
  \/ WsFinally

StreamSpec == Init /\ [][StreamNext]_vars

\* A stream that stays connected takes its next step: the handler task is
\* scheduled, its sleep ends, its sends return; a broadcast in progress
\* sends and returns.  Nothing obliges the run to end.
StreamFairSpec ==
  /\ StreamSpec
  /\ WF_vars(WsRegister) /\ WF_vars(StreamPoll) /\ WF_vars(StreamStatus)
  /\ WF_vars(StreamTail) /\ WF_vars(StreamTerminal) /\ WF_vars(WsFinally)
  /\ WF_vars(LifeBroadcastSend) /\ WF_vars(LifeBroadcastReturns)

\* -------------------------------------------------- a subscriber that stalls

\* ws.py line 86, "await connection.send_text(message)": the send to a
\* subscriber of the run, started by a broadcast in progress, never completes.
SubscriberStalls ==
  /\ ~hungSubscriber
  /\ \/ pc \in {"broadcast_status", "retrying", "final_broadcast"}
     \/ \E i \in Cancels : cancel[i] = "broadcast"
  /\ hungSubscriber' = TRUE
  /\ UNCHANGED << execVars, bcastVars, streamVars, restVars >>

SlowNext ==
  \/ Next
  \/ SubscriberStalls

\* The executor together with subscribers whose sends may never complete.
SlowSpec == Init /\ [][SlowNext]_vars

\* ------------------------------------------------------ log file and tailer
\* executor.py lines 370-420 write stdout.log, the subprocess of each attempt
\* writes to it through the descriptor it inherits, and the loop of a stream
\* (runs.py lines 677-689, ws.py lines 240-254) tails it with tail_file and
\* parses each line for progress.  stderr.log is written and tailed the same
\* way.  The file is a sequence of characters; a character records the
\* attempt that wrote it and whether it belongs to a retry marker.  Text
\* between newlines is reduced to three tokens: "x" (any other text), and
\* two texts the progress patterns match.

\* What a step of the log writer or of the tailer leaves alone.
frameOfLog == << execVars, slowVars, bcastVars, streamVars, deleteVars,
                delayVars, laterVars >>

NL == "\n"
Tokens == {"x", "[1/2]", "50%", NL}

\* executor.py line 376: "\n\n=== RETRY ATTEMPT ... ===\n\n".
MarkerText == << NL, NL, "=== RETRY ATTEMPT ===", NL, NL >>
retry_marker(n) ==
  [i \in 1..Len(MarkerText) |-> [c |-> MarkerText[i], attempt |-> n, marker |-> TRUE]]

\* The characters of a piece of the file.
Chars(f) == [i \in 1..Len(f) |-> f[i].c]

\* Index of the first newline of text, 0 when there is none.
RECURSIVE FirstNewline(_, _)
FirstNewline(text, i) ==
  IF i > Len(text) THEN 0
  ELSE IF text[i] = NL THEN i
  ELSE FirstNewline(text, i + 1)

\* str.splitlines(): the lines of text without their newline; a last
\* line that has no newline is a line too, an empty rest is not.
RECURSIVE SplitLines(_)
SplitLines(text) ==
  IF text = << >> THEN << >>
  ELSE LET k == FirstNewline(text, 1)
       IN  IF k = 0 THEN << text >>
           ELSE << SubSeq(text, 1, k - 1) >>
                  \o SplitLines(SubSeq(text, k + 1, Len(text)))

\* runs.py lines 573-590 and ws.py lines 134-151: tail_file.  Everything
\* from position to the end of the file is read and split into lines; a
\* file that does not exist gives no lines and the position it was given.
tail_file(exists, f, position) ==
  IF exists
    THEN [lines |-> SplitLines(Chars(SubSeq(f, position + 1, Len(f)))),
          position |-> Len(f)]
    ELSE [lines |-> << >>, position |-> position]

\* progress_parser.py lines 48-82: parse_progress.  The patterns are tried
\* in order, the bracketed one before the percentage; a percentage gives
\* total 100; the message is the line.  percentage is in tenths.
NoProgress == << >>
Has(line, token) == \E i \in DOMAIN line : line[i] = token
parse_progress(line) ==
  IF Has(line, "[1/2]")
    THEN << [current |-> 1, total |-> 2, percentage |-> (1 * 1000) \div 2,
             message |-> line] >>
  ELSE IF Has(line, "50%")
    THEN << [current |-> 50, total |-> 100, percentage |-> 500,
             message |-> line] >>
  ELSE NoProgress

\* Faulty variant: every parsed progress is emitted.
ProgressChanged_Always(progress, last) == progress # NoProgress

\* runs.py line 686 and ws.py line 248: "if progress and progress !=
\* last_progress"; Progress is a dataclass, compared field by field.
ProgressChanged(progress, last) == progress # NoProgress /\ progress # last

\* runs.py lines 679-689 and ws.py lines 241-254: the loop over the lines
\* tail_file returned.  Gives the new last_progress and the progress events
\* sent.
RECURSIVE EmitProgress(_, _)
EmitProgress(lines, last) ==
  IF lines = << >> THEN [last |-> last, sent |-> << >>]
  ELSE LET progress == parse_progress(Head(lines))
           changed == ProgressChanged(progress, last)
           rest == EmitProgress(Tail(lines), IF changed THEN progress ELSE last)
       IN  [last |-> rest.last,
            sent |-> (IF changed THEN progress ELSE << >>) \o rest.sent]

\* The characters the subprocesses of the attempts have written so far.
Written == Len(SelectSeq(stdout_log, LAMBDA ch : ~ch.marker))

\* executor.py lines 370-390: the log file is opened, "w" for the first
\* attempt and "a" for the others, the retry marker is written to the file
\* object, which buffers it, and the subprocess is started with the file as
\* its stdout.  When Popen raises, the "with" block is left and the file
\* object is closed, which writes its buffer to the end of the file
\* (lines 545-548).
LogLaunch ==
  /\ logPc = "closed"
  /\ logAttempt < MaxLogAttempts
  /\ logExists' = TRUE
  /\ \E started \in BOOLEAN :
       LET opened == IF logAttempt = 0 THEN << >> ELSE stdout_log
           written == IF logAttempt = 0 THEN << >> ELSE retry_marker(logAttempt)
       IN  IF started
             THEN /\ stdout_log' = opened
                  /\ stdout_buffer' = written
                  /\ logPc' = "running"
             ELSE /\ stdout_log' = opened \o written
                  /\ stdout_buffer' = << >>
                  /\ logPc' = "done"
  /\ UNCHANGED << logAttempt, tailerVars, frameOfLog >>

\* The subprocess writes to its stdout: one character is appended to the
\* file.
SubprocessWrites(token) ==
  /\ logPc = "running"
  /\ Written < MaxOutput
  /\ stdout_log' = Append(stdout_log,
                          [c |-> token, attempt |-> logAttempt, marker |-> FALSE])
  /\ UNCHANGED << logPc, logAttempt, logExists, stdout_buffer, tailerVars,
                  frameOfLog >>

\* The subprocess exits.
SubprocessExits ==
  /\ logPc = "running"
  /\ logPc' = "exited"
  /\ UNCHANGED << logAttempt, logExists, stdout_log, stdout_buffer, tailerVars,
                  frameOfLog >>

\* executor.py lines 397-420 and 429-470: process.wait returns and the
\* "with" block is left, by "return" or at its end; the file object is
\* closed and its buffer is written to the end of the file.  The attempt
\* was the last one or another one follows.
LogClose ==
  /\ logPc = "exited"
  /\ stdout_log' = stdout_log \o stdout_buffer
  /\ stdout_buffer' = << >>
  /\ \/ /\ logPc' = "done"
        /\ UNCHANGED logAttempt
     \/ /\ logAttempt + 1 < MaxLogAttempts
        /\ logAttempt' = logAttempt + 1
        /\ logPc' = "closed"
  /\ UNCHANGED << logExists, tailerVars, frameOfLog >>

\* runs.py lines 677-689 and ws.py lines 240-254: one iteration of the
\* loop of a stream tails stdout.log from stdout_pos, sends a log_line event
\* for each line and a progress event for each line whose progress changed.
TailStdout ==
  LET read == tail_file(logExists, stdout_log, stdout_pos)
      emitted == EmitProgress(read.lines, last_progress)
  IN  /\ stdout_pos' = read.position
      /\ log_lines' = log_lines \o read.lines
      /\ last_progress' = emitted.last
      /\ progress_events' = progress_events \o emitted.sent
      /\ UNCHANGED << logVars, frameOfLog >>

TailNext ==
  \/ LogLaunch
  \/ \E token \in Tokens : SubprocessWrites(token)
  \/ SubprocessExits
  \/ LogClose
  \/ TailStdout

TailInit == Init /\ hasConfig /\ hasOwner

TailSpec == TailInit /\ [][TailNext]_vars

\* ---------------------------------------------------------------- delete_run
\* run_store.py lines 185-221: RunStore.delete_run, called by the route
\* DELETE /runs/{run_id} (runs.py lines 362-376, which makes the same two
\* checks first), while execute_run takes the run through its life.  The
\* executor is the reduced one of the live streams; an update of a row that
\* has been deleted changes nothing in the repository, and run then holds
\* what the row would hold.

\* What a step of delete_run leaves alone.
frameOfDelete == << execVars, slowVars, bcastVars, streamVars, logVars,
                    tailerVars, delayVars, laterVars >>

\* executor.py lines 276-298: the artifact directory of the run is created
\* before the RUNNING update.
ArtifactDirExists == hasConfig /\ pc # "start" /\ ~artifacts_deleted

\* run_store.py lines 200-202: "if run.status == RunStatus.RUNNING: return
\* False".
Deletable(st) == st # RUNNING

\* run_store.py lines 196-202: get_run reads the row; a missing row and a
\* RUNNING one make delete_run return False.
DeleteGetRun ==
  /\ deleter.pc = "idle"
  /\ deleter' = IF ~row_deleted /\ Deletable(run.status)
                  THEN [deleter EXCEPT !.pc = "delete", !.status = run.status]
                  ELSE [deleter EXCEPT !.pc = "returned", !.result = << FALSE >>,
                                       !.status = IF row_deleted THEN None
                                                  ELSE run.status]
  /\ UNCHANGED << row_deleted, artifacts_deleted, frameOfDelete >>

\* run_store.py lines 205-213: "DELETE FROM runs WHERE run_id = ?" is
\* executed and committed.
DeleteRow ==
  /\ deleter.pc = "delete"
  /\ row_deleted' = TRUE
  /\ deleter' = [deleter EXCEPT !.pc = "artifacts"]
  /\ UNCHANGED << artifacts_deleted, frameOfDelete >>

\* run_store.py lines 216-221: the artifact directory is removed when it
\* exists; delete_run returns True.
DeleteArtifacts ==
  /\ deleter.pc = "artifacts"
  /\ artifacts_deleted' = (artifacts_deleted \/ ArtifactDirExists)
  /\ deleter' = [deleter EXCEPT !.pc = "returned", !.result = << TRUE >>]
  /\ UNCHANGED << row_deleted, frameOfDelete >>

\* Another delete request is made.
DeleteAgain ==
  /\ deleter.pc = "returned"
  /\ deleter' = NoDelete
  /\ UNCHANGED << row_deleted, artifacts_deleted, frameOfDelete >>

DeleteNext ==
  \/ LifeStart
  \/ LifeBroadcastCall
  \/ LifeBroadcastReturns
  \/ LifeLaunchError
  \/ LifeAttemptEnds
  \/ LifeCancel
  \/ DeleteGetRun
  \/ DeleteRow
  \/ DeleteArtifacts
  \/ DeleteAgain

DeleteSpec == Init /\ [][DeleteNext]_vars

\* ------------------------------------------------------------ calculate_delay
\* retry.py lines 145-171.  Delays are in milliseconds, jitter_range in
\* percent; random.uniform(-j, j) is one of nine evenly spaced values.

Attempts == 0..MAX_RETRIES
BaseDelays == {50, 100, 1000, 1500, 2000}
MaxDelays == {4000, 32000, 48000, 64000}
Uniform == -4..4

\* retry.py lines 66-99: RetryConfig, with the fields calculate_delay reads;
\* the defaults are max_delay 32 s, jitter on, jitter_range 0.25.
RetryConfig(base, max, jitter) ==
  [base_delay |-> base, max_delay |-> max, jitter |-> jitter,
   jitter_range |-> 25]

RetryConfigs ==
  {RetryConfig(b, m, j) : b \in BaseDelays, m \in MaxDelays, j \in BOOLEAN}

Min(a, b) == IF a < b THEN a ELSE b
Max(a, b) == IF a > b THEN a ELSE b

\* retry.py lines 158-162: base_delay * 2 ** attempt, capped at max_delay.
NominalDelay(n, config) == Min(config.base_delay * Pow2(n), config.max_delay)

\* retry.py line 166: jitter_amount = delay * config.jitter_range.
JitterAmount(n, config) == (NominalDelay(n, config) * config.jitter_range) \div 100

\* Faulty variant: the delay is not capped.
calculate_delay_Uncapped(n, config, u) ==
  LET delay == config.base_delay * Pow2(n)
  IN  IF config.jitter
        THEN Max(100, delay + (JitterAmount(n, config) * u) \div 4)
        ELSE delay

\* retry.py lines 145-171: calculate_delay; u is the draw of random.uniform.
calculate_delay(n, config, u) ==
  LET delay == NominalDelay(n, config)
  IN  IF config.jitter
        THEN Max(100, delay + (JitterAmount(n, config) * u) \div 4)
        ELSE delay

\* What a call of calculate_delay leaves alone.
frameOfDelay == << execVars, slowVars, bcastVars, streamVars, logVars,
                   tailerVars, deleteVars, laterVars >>

\* A caller computes a delay; one call is looked at.
CalculateDelay ==
  /\ delay_call = << >>
  /\ \E n \in Attempts, config \in RetryConfigs, u \in Uniform :
       delay_call' = << [by |-> "caller", attempt |-> n, config |-> config,
                         delay |-> calculate_delay(n, config, u)] >>
  /\ UNCHANGED frameOfDelay

\* executor.py lines 349-350: on attempt n >= 1 of the retry loop the
\* executor computes calculate_delay(attempt - 1,
\* RetryConfig(base_delay=self.BASE_DELAY)), BASE_DELAY being 1 s.
ExecutorDelay ==
  /\ delay_call = << >>
  /\ \E n \in 1..MAX_RETRIES, u \in Uniform :
       LET config == RetryConfig(BASE_DELAY, 32000, TRUE)
       IN  delay_call' = << [by |-> "executor", attempt |-> n, config |-> config,
                             delay |-> calculate_delay(n - 1, config, u)] >>
  /\ UNCHANGED frameOfDelay

DelayNext == CalculateDelay \/ ExecutorDelay

DelaySpec == Init /\ [][DelayNext]_vars

\* ------------------------------------------------- classification of an attempt
\* executor.py lines 420-470: stdout.log and stderr.log are read, the rule
\* table is applied to both together and the exit code decides with it what
\* becomes of the attempt.  Here the two files are kept apart: a file is the
\* set of table patterns that occur in it and whether it holds any other
\* text.  The executor above keeps the set of patterns of both files only
\* and has one text for the two fallback messages of line 460.

\* The patterns of the rule table.
TablePatterns == {failure_patterns[i].pattern : i \in 1..Len(failure_patterns)}

LogFile(patterns, text) == [patterns |-> patterns, text |-> text]
IsEmpty(file) == file.patterns = {} /\ ~file.text

\* What stdout.log holds: up to MaxOutputPatterns patterns of the table.
StdoutContents ==
  {LogFile(ps, FALSE) : ps \in {o \in SUBSET TablePatterns :
                                   Cardinality(o) <= MaxOutputPatterns}}

\* What stderr.log holds: nothing, text without a pattern, or one pattern.
StderrContents ==
  {LogFile({}, FALSE), LogFile({}, TRUE)}
    \cup {LogFile({p}, FALSE) : p \in TablePatterns}

\* Line 198: combined_content = stdout_content + "\n" + stderr_content.
Combined(stdout_content, stderr_content) ==
  stdout_content.patterns \cup stderr_content.patterns

\* f"Process exited with code {exit_code}".
ExitText(code) ==
  CASE code = 0 -> "Process exited with code 0"
    [] code = 1 -> "Process exited with code 1"
    [] code = 130 -> "Process exited with code 130"
    [] code = -15 -> "Process exited with code -15"

\* Line 460: error = stderr_content[-1000:] if stderr_content else
\* f"Process exited with code {exit_code}".
FallbackError(stderr_content, code) ==
  IF IsEmpty(stderr_content) THEN Msg(ExitText(code), 0)
  ELSE Msg("tail of stderr", 0)

\* Lines 427-470: what is decided for attempt n that ended with code.
\* retry says that the loop goes on to another attempt.
Classify(stdout_content, stderr_content, code, n) ==
  LET det == DetectFailure(Combined(stdout_content, stderr_content))
  IN  IF code = 0 /\ ~det.failure
        THEN [detected |-> det, status |-> COMPLETED, error |-> NoError,
              retry |-> FALSE]
      ELSE IF Interrupted(code)
        THEN [detected |-> det, status |-> CANCELED,
              error |-> Msg("Run was canceled", 0), retry |-> FALSE]
      ELSE IF det.retryable /\ AttemptsRemain(n)
        THEN [detected |-> det, status |-> None,
              error |-> Msg(det.message, 0), retry |-> TRUE]
      ELSE [detected |-> det, status |-> FAILED,
            error |-> AnnotateError(IF det.failure THEN Msg(det.message, 0)
                                    ELSE FallbackError(stderr_content, code), n),
            retry |-> FALSE]

\* What a classification leaves alone.
frameOfClassify == << execVars, slowVars, bcastVars, streamVars, logVars,
                      tailerVars, deleteVars, delayVars, loopVars, lockVars,
                      retryVars, schedVars, metricsVars >>

\* An attempt has ended and is classified; one classification is looked at.
ClassifyAttempt ==
  /\ classify_call = << >>
  /\ \E out \in StdoutContents, err \in StderrContents, code \in ExitCodes,
        n \in 0..MAX_RETRIES :
       classify_call' = << [stdout_content |-> out, stderr_content |-> err,
                            exit_code |-> code, attempt |-> n,
                            outcome |-> Classify(out, err, code, n)] >>
  /\ UNCHANGED frameOfClassify

ClassifyNext == ClassifyAttempt

ClassifyInit == Init /\ hasConfig /\ hasOwner

ClassifySpec == ClassifyInit /\ [][ClassifyNext]_vars

\* ------------------------------------------------- the event loop and two runs
\* All coroutines of the backend run on the one thread of the asyncio event
\* loop.  A coroutine that awaits gives the thread back; a call that does
\* not return at once and is not awaited keeps it, and no other coroutine
\* takes a step until it returns.  execute_run waits for the exit with
\* "await loop.run_in_executor(None, process.wait)" (executor.py lines
\* 393-395): the wait is made in a worker thread.  cancel_run calls
\* process.terminate() and process.wait(timeout=5), and after a timeout
\* process.kill() and process.wait(), in the coroutine itself (lines
\* 614-623).  Each run has an execute_run task, cancel_run calls and a
\* stream (runs.py lines 664-728, ws.py lines 199-304).

\* What a step of a task leaves alone.
frameOfLoop == << execVars, slowVars, bcastVars, streamVars, logVars,
                  tailerVars, deleteVars, delayVars, classifyVars,
                  lockVars, retryVars, schedVars, metricsVars >>

\* The thread of the event loop is free: a coroutine can be resumed.
ThreadFree == loop_thread = NoCall

\* _running_processes holds the process from line 390 to line 400.
Registered(r) == executing[r] = "wait"

\* Lines 370-395: the subprocess is started and registered, the task awaits
\* its exit in a worker thread.
LoopLaunch(r) ==
  /\ ThreadFree
  /\ executing[r] = "start"
  /\ executing' = [executing EXCEPT ![r] = "wait"]
  /\ subprocess' = [subprocess EXCEPT ![r] = "running"]
  /\ UNCHANGED << loop_thread, canceling, grace_elapsed, polled, frameOfLoop >>

\* The subprocess exits, by itself or on the SIGTERM it was sent.
LoopProcessExits(r) ==
  /\ subprocess[r] \in {"running", "terminating"}
  /\ subprocess' = [subprocess EXCEPT ![r] = "exited"]
  /\ UNCHANGED << loop_thread, executing, canceling, grace_elapsed, polled,
                  frameOfLoop >>

\* Lines 395-400: process.wait has returned in the worker thread and the
\* task is resumed.
LoopWaitReturns(r) ==
  /\ ThreadFree
  /\ executing[r] = "wait"
  /\ subprocess[r] = "exited"
  /\ executing' = [executing EXCEPT ![r] = "done"]
  /\ UNCHANGED << loop_thread, subprocess, canceling, grace_elapsed, polled,
                  frameOfLoop >>

\* Lines 604-618: cancel_run finds the process, sends SIGTERM and calls
\* process.wait(timeout=5).
LoopCancel(r) ==
  /\ ThreadFree
  /\ canceling[r] = "idle"
  /\ Registered(r)
  /\ canceling' = [canceling EXCEPT ![r] = "grace"]
  /\ subprocess' = [subprocess EXCEPT
                      ![r] = IF @ = "running" THEN "terminating" ELSE @]
  /\ loop_thread' = r
  /\ grace_elapsed' = 0
  /\ UNCHANGED << executing, polled, frameOfLoop >>

\* A second of the grace period passes, the process has not exited.
LoopGraceTick(r) ==
  /\ loop_thread = r
  /\ subprocess[r] # "exited"
  /\ grace_elapsed < GRACE_PERIOD
  /\ grace_elapsed' = grace_elapsed + 1
  /\ UNCHANGED << loop_thread, subprocess, executing, canceling, polled,
                  frameOfLoop >>

\* Lines 618-630: process.wait(timeout=5) returns because the process has
\* exited, or raises TimeoutExpired, and then the process is killed and
\* waited for; the registration is removed and the update is awaited.
LoopGraceEnds(r) ==
  /\ loop_thread = r
  /\ subprocess[r] = "exited" \/ grace_elapsed = GRACE_PERIOD
  /\ subprocess' = [subprocess EXCEPT ![r] = "exited"]
  /\ canceling' = [canceling EXCEPT ![r] = "persist"]
  /\ loop_thread' = NoCall
  /\ UNCHANGED << executing, grace_elapsed, polled, frameOfLoop >>

\* Lines 630-646: the update and the broadcast are made, cancel_run returns.
LoopCancelReturns(r) ==
  /\ ThreadFree
  /\ canceling[r] = "persist"
  /\ canceling' = [canceling EXCEPT ![r] = "done"]
  /\ UNCHANGED << loop_thread, subprocess, executing, grace_elapsed, polled,
                  frameOfLoop >>

\* An iteration of the loop of the stream of a run.
LoopStreamPoll(r) ==
  /\ ThreadFree
  /\ polled[r] < MaxPolls
  /\ polled' = [polled EXCEPT ![r] = @ + 1]
  /\ UNCHANGED << loop_thread, subprocess, executing, canceling, grace_elapsed,
                  frameOfLoop >>

LoopNext ==
  \E r \in Runs :
    \/ LoopLaunch(r)
    \/ LoopProcessExits(r)
    \/ LoopWaitReturns(r)
    \/ LoopCancel(r)
    \/ LoopGraceTick(r)
    \/ LoopGraceEnds(r)
    \/ LoopCancelReturns(r)
    \/ LoopStreamPoll(r)

LoopInit == Init /\ hasConfig /\ hasOwner

LoopSpec == LoopInit /\ [][LoopNext]_vars

\* ------------------------------------------------ the lock of the registry
\* ws.py lines 30-97: every access of ConnectionManager to the list of a
\* run is made in an "async with self._lock" block.  An asyncio.Lock that
\* is free is taken without suspending the caller, and a block that holds
\* no await is left before any other coroutine runs: such a block is part
\* of one step.  The list is that of one run; connect_to_dashboard,
\* disconnect_from_dashboard and broadcast_to_dashboard (lines 49-54,
\* 68-75, 99-119) are the same code on the other list.

\* What a step of the ConnectionManager leaves alone.
frameOfLock == << execVars, slowVars, bcastVars, streamVars, logVars,
                  tailerVars, deleteVars, delayVars, classifyVars, loopVars,
                  retryVars, schedVars, metricsVars >>

BroadcastToRun == "broadcast_to_run"

\* "async with self._lock" can be entered.
LockFree == lock = NoCall

\* Faulty variant: the loop of the sends is inside the "async with" block.
AfterSnapshot_StillHeld(holder) == holder

\* Lines 80-83: the "async with" block of broadcast_to_run ends with the
\* copy of the list, before the loop of the sends; the lock is released.
AfterSnapshot(holder) == NoCall

\* Line 42: "await websocket.accept()", before the lock is taken.
WebSocketAccept(c) ==
  /\ subscriber[c] = "new"
  /\ subscriber' = [subscriber EXCEPT ![c] = "accepted"]
  /\ UNCHANGED << lock, subscribers, delivery, sent, frameOfLock >>

\* Lines 43-47, connect_to_run: under the lock the WebSocket is appended to
\* the list of the run.
ConnectToRun(c) ==
  /\ subscriber[c] = "accepted"
  /\ LockFree
  /\ subscribers' = Append(subscribers, c)
  /\ subscriber' = [subscriber EXCEPT ![c] = "open"]
  /\ UNCHANGED << lock, delivery, sent, frameOfLock >>

\* The client of a WebSocket goes away: a send_text to it raises.
WebSocketCloses(c) ==
  /\ subscriber[c] = "open"
  /\ subscriber' = [subscriber EXCEPT ![c] = "closed"]
  /\ UNCHANGED << lock, subscribers, delivery, sent, frameOfLock >>

\* Lines 56-66, disconnect_from_run: under the lock the WebSocket is
\* removed from the list of the run.
DisconnectFromRun(c) ==
  /\ subscriber[c] \in {"open", "closed"}
  /\ LockFree
  /\ subscribers' = Remove(subscribers, c)
  /\ subscriber' = [subscriber EXCEPT ![c] = "gone"]
  /\ UNCHANGED << lock, delivery, sent, frameOfLock >>

\* Lines 77-82, broadcast_to_run: under the lock the list is copied.
BroadcastToRunSnapshot ==
  /\ delivery.pc = "idle"
  /\ LockFree
  /\ delivery' = [pc |-> "send", connections |-> subscribers,
                  disconnected |-> << >>]
  /\ lock' = AfterSnapshot(BroadcastToRun)
  /\ UNCHANGED << subscriber, subscribers, sent, frameOfLock >>

\* Lines 84-88, one iteration: "await connection.send_text(message)"; a
\* send that raises puts the connection on the disconnected list.  A
\* WebSocket whose handler has returned may raise or not.
BroadcastToRunSend ==
  /\ delivery.pc = "send"
  /\ delivery.connections # << >>
  /\ LET c == Head(delivery.connections)
     IN  /\ sent' = Append(sent, c)
         /\ \E raises \in BOOLEAN :
              /\ subscriber[c] = "open" => ~raises
              /\ subscriber[c] = "closed" => raises
              /\ delivery' = [delivery EXCEPT
                                !.connections = Tail(@),
                                !.disconnected =
                                   IF raises THEN Append(@, c) ELSE @]
  /\ UNCHANGED << lock, subscriber, subscribers, frameOfLock >>

\* Lines 90-97: after the last send the connections whose send raised are
\* removed from the list, under the lock; with none of them the lock is not
\* taken.  broadcast_to_run returns.
BroadcastToRunCleanup ==
  /\ delivery.pc = "send"
  /\ delivery.connections = << >>
  /\ delivery.disconnected # << >> => LockFree
  /\ subscribers' = RemoveAll(subscribers, Range(delivery.disconnected))
  /\ delivery' = [delivery EXCEPT !.pc = "done"]
  /\ UNCHANGED << lock, subscriber, sent, frameOfLock >>

LockNext ==
  \/ \E c \in Conns : WebSocketAccept(c)
  \/ \E c \in Conns : ConnectToRun(c)
  \/ \E c \in Conns : WebSocketCloses(c)
  \/ \E c \in Conns : DisconnectFromRun(c)
  \/ BroadcastToRunSnapshot
  \/ BroadcastToRunSend
  \/ BroadcastToRunCleanup

LockInit == Init /\ hasConfig /\ hasOwner

LockSpec == LockInit /\ [][LockNext]_vars

\* ------------------------------------------------------------------ with_retry
\* retry.py lines 239-353: with_retry(func, config=..., on_retry=...).  An
\* exception is its class, its status code (0 for None) and its message.

Exc(kind, status_code, message) ==
  [kind |-> kind, status_code |-> status_code, message |-> message]

\* Lines 27-31.
RETRYABLE_STATUS_CODES == {429, 500, 502, 503, 504}
NON_RETRYABLE_STATUS_CODES == {400, 401, 403, 404}

\* What func, or the on_retry callback, can raise: the two exceptions of
\* the module with and without a status code, HTTP errors of the two sets
\* and of neither, a connection error, a timeout, any other exception.
Raised ==
  {Exc("NonRetryableError", 0, "func"), Exc("NonRetryableError", 401, "func"),
   Exc("RetryableError", 0, "func"), Exc("RetryableError", 429, "func"),
   Exc("RetryableError", 404, "func"),
   Exc("HTTPStatusError", 404, "func"), Exc("HTTPStatusError", 418, "func"),
   Exc("HTTPStatusError", 429, "func"), Exc("HTTPStatusError", 503, "func"),
   Exc("ConnectError", 0, "func"), Exc("TimeoutException", 0, "func"),
   Exc("ValueError", 0, "func")}

\* Lines 67-99: the fields of RetryConfig with_retry reads; the sets of
\* status codes are the default ones.
WithRetryConfigs ==
  [max_retries : 0..MaxConfigRetries,
   retry_on_connection_error : BOOLEAN,
   retry_on_timeout : BOOLEAN]

\* Lines 174-187.
is_retryable_status_code(status_code) ==
  IF status_code \in NON_RETRYABLE_STATUS_CODES THEN FALSE
  ELSE status_code \in RETRYABLE_STATUS_CODES

\* Faulty variant: every exception is retried.
is_retryable_exception_Any(exc, config) == TRUE

\* Lines 190-223.
is_retryable_exception(exc, config) ==
  IF config.retry_on_connection_error /\ exc.kind = "ConnectError" THEN TRUE
  ELSE IF config.retry_on_timeout /\ exc.kind = "TimeoutException" THEN TRUE
  ELSE IF exc.kind = "HTTPStatusError"
    THEN is_retryable_status_code(exc.status_code)
  ELSE exc.kind = "RetryableError"

\* Lines 301-307: the status code with_retry reads from the exception.
StatusOf(exc) ==
  IF exc.kind \in {"HTTPStatusError", "RetryableError", "NonRetryableError"}
    THEN exc.status_code
  ELSE 0

\* Lines 299-353: the except clause for exc raised in iteration
\* w.attempt, and what follows it: the exception, or a NonRetryableError
\* made from it, is raised, or the loop goes on, or it has ended and
\* RetryableError is raised.  getattr(last_exception, 'status_code', None)
\* is the status code of the two exceptions of the module only.
Handle(w, exc) ==
  LET config == w.config[1]
      caught == [w EXCEPT !.last_exception = << exc >>]
  IN  IF exc.kind = "NonRetryableError"
        THEN [caught EXCEPT !.pc = "raised", !.raised = << exc >>]
      ELSE IF StatusOf(exc) # 0 /\ StatusOf(exc) \in NON_RETRYABLE_STATUS_CODES
        THEN [caught EXCEPT !.pc = "raised",
                !.raised = << Exc("NonRetryableError", StatusOf(exc), "from exc") >>]
      ELSE IF ~is_retryable_exception(exc, config)
        THEN [caught EXCEPT !.pc = "raised", !.raised = << exc >>]
      ELSE IF w.attempt < config.max_retries
        THEN [caught EXCEPT !.pc = "retry", !.attempt = @ + 1]
      ELSE [caught EXCEPT !.pc = "raised",
              !.raised = << Exc("RetryableError",
                                IF exc.kind \in {"RetryableError", "NonRetryableError"}
                                  THEN exc.status_code ELSE 0,
                                "failed after attempts") >>]

\* What a step of with_retry leaves alone.
frameOfRetry == << execVars, slowVars, bcastVars, streamVars, logVars,
                   tailerVars, deleteVars, delayVars, classifyVars, loopVars,
                   lockVars, schedVars, metricsVars >>

\* Lines 267-274: with_retry is called; iteration 0 goes to the call of
\* func.
WithRetryCalled(config) ==
  /\ with_retry_call.pc = "idle"
  /\ with_retry_call' = [with_retry_call EXCEPT !.pc = "call",
                                                !.config = << config >>]
  /\ UNCHANGED frameOfRetry

\* Lines 275-287, an iteration after the first: the delay is computed, the
\* on_retry callback, if there is one, is called and returns or raises, the
\* delay is slept.
WithRetrySleeps ==
  /\ with_retry_call.pc = "retry"
  /\ \/ with_retry_call' = [with_retry_call EXCEPT !.pc = "call"]
     \/ with_retry_call' = [with_retry_call EXCEPT !.pc = "call",
                                                   !.callbacks = @ + 1]
     \/ \E exc \in Raised :
          with_retry_call' =
            Handle([with_retry_call EXCEPT !.callbacks = @ + 1], exc)
  /\ UNCHANGED frameOfRetry

\* Lines 289-297: func is awaited and returns; with_retry returns its
\* result, which is here the number of the invocation that gave it.
WithRetryFuncReturns ==
  /\ with_retry_call.pc = "call"
  /\ with_retry_call' = [with_retry_call EXCEPT
                           !.pc = "returned",
                           !.result = << Len(with_retry_call.failures) + 1 >>]
  /\ UNCHANGED frameOfRetry

\* Lines 289 and 299-353: func is awaited and raises.
WithRetryFuncRaises(exc) ==
  /\ with_retry_call.pc = "call"
  /\ with_retry_call' =
       Handle([with_retry_call EXCEPT !.failures = Append(@, exc)], exc)
  /\ UNCHANGED frameOfRetry

RetryNext ==
  \/ \E config \in WithRetryConfigs : WithRetryCalled(config)
  \/ WithRetrySleeps
  \/ WithRetryFuncReturns
  \/ \E exc \in Raised : WithRetryFuncRaises(exc)

RetryInit == Init /\ hasConfig /\ hasOwner

RetrySpec == RetryInit /\ [][RetryNext]_vars

\* ------------------------------------------------------------------- scheduler
\* scheduler.py lines 59-106: the loop of RunScheduler polls the repository
\* and starts the runs that are due.  A run here is one that was created
\* with a scheduled time.

\* What a step of the scheduler leaves alone.
frameOfScheduler == << execVars, slowVars, bcastVars, streamVars, logVars,
                       tailerVars, deleteVars, delayVars, classifyVars,
                       loopVars, lockVars, retryVars, metricsVars >>

\* run_store.py lines 132-143: the keyword parameters of update_run.
UpdateRunParameters ==
  {"status", "started_at", "finished_at", "artifact_dir", "exit_code", "error",
   "primary_metric", "primary_metric_name"}

\* A call of update_run with a keyword it does not have raises TypeError
\* before its body is entered.
UpdateRunAccepts(keyword) == keyword \in UpdateRunParameters

\* The runs in the order in which a query returns them.
RunOrder == << RunId, "r2" >>

\* scheduler.py line 77: run_store.get_due_scheduled_runs(), which
\* run_store.py does not define: "finds runs whose start time has arrived",
\* the runs whose scheduled_for is set and not in the future.
get_due_scheduled_runs ==
  SelectSeq(RunOrder, LAMBDA r : scheduled[r].scheduled_for = "due")

\* The scheduled time of a run arrives.
TimeArrives(r) ==
  /\ scheduled[r].scheduled_for = "future"
  /\ scheduled' = [scheduled EXCEPT ![r].scheduled_for = "due"]
  /\ UNCHANGED << handed, scheduler, frameOfScheduler >>

\* Lines 66-82: the sleep of the loop ends and the due runs are read.
SchedulerPoll ==
  /\ scheduler.pc = "sleep"
  /\ scheduler.polls < MaxSchedulerPolls
  /\ LET due_runs == get_due_scheduled_runs
     IN  scheduler' = [scheduler EXCEPT
                         !.pc = IF due_runs = << >> THEN "sleep" ELSE "run",
                         !.due_runs = due_runs,
                         !.polls = @ + 1,
                         !.found = @ \cup Range(due_runs)]
  /\ UNCHANGED << scheduled, handed, frameOfScheduler >>

\* Lines 83-98, an iteration of the loop over due_runs: the keys of the
\* owner are read, which may raise; update_run(run_id, scheduled_for=None)
\* is called and execute_run is started as a task; an exception of any of
\* them is caught and the FAILED update is awaited.
SchedulerStartRun ==
  /\ scheduler.pc = "run"
  /\ LET r == Head(scheduler.due_runs)
     IN  \E keys_raise \in BOOLEAN :
           IF keys_raise
             THEN /\ scheduler' = [scheduler EXCEPT !.pc = "except",
                                                    !.keys_failed = @ \cup {r}]
                  /\ UNCHANGED << scheduled, handed >>
           ELSE IF ~UpdateRunAccepts("scheduled_for")
             THEN /\ scheduler' = [scheduler EXCEPT !.pc = "except"]
                  /\ UNCHANGED << scheduled, handed >>
           ELSE /\ scheduled' = [scheduled EXCEPT ![r].scheduled_for = None]
                /\ handed' = [handed EXCEPT ![r] = @ + 1]
                /\ scheduler' =
                     [scheduler EXCEPT
                        !.due_runs = Tail(@),
                        !.pc = IF Tail(scheduler.due_runs) = << >>
                                 THEN "sleep" ELSE "run"]
  /\ UNCHANGED frameOfScheduler

\* Lines 99-106: the run is updated to FAILED with the error of the
\* scheduler; the loop goes on with the next due run.
SchedulerMarkFailed ==
  /\ scheduler.pc = "except"
  /\ LET r == Head(scheduler.due_runs)
     IN  /\ scheduled' = [scheduled EXCEPT ![r].status = FAILED]
         /\ scheduler' =
              [scheduler EXCEPT
                 !.due_runs = Tail(@),
                 !.pc = IF Tail(scheduler.due_runs) = << >>
                          THEN "sleep" ELSE "run"]
  /\ UNCHANGED << handed, frameOfScheduler >>

SchedulerNext ==
  \/ \E r \in Runs : TimeArrives(r)
  \/ SchedulerPoll
  \/ SchedulerStartRun
  \/ SchedulerMarkFailed

SchedulerInit == Init /\ hasConfig /\ hasOwner

SchedulerSpec == SchedulerInit /\ [][SchedulerNext]_vars

\* ------------------------------------------------------ extract_metrics_from_dict
\* summary_parser.py lines 160-187.  A dictionary is the sequence of its
\* items in iteration order, which for a Python dict is insertion order; an
\* item is a key and the type of its value.  A metric is named by its key.

frameOfMetrics == << execVars, slowVars, bcastVars, streamVars, logVars,
                     tailerVars, deleteVars, delayVars, classifyVars,
                     loopVars, lockVars, retryVars, schedVars >>

\* Line 166.
priority_keys == << "accuracy", "acc", "score", "f1", "f1_score", "precision",
                    "recall" >>

\* Line 173.
MetadataKeys == {"total_samples", "completed_samples", "limit", "schema_version"}

\* Keys of the dictionaries looked at, and the types of their values.
Keys == {"accuracy", "score", "f1", "custom_metric", "total_samples", "limit"}
ValueTypes == {"float", "bool", "str"}

\* Line 171: isinstance(value, (int, float)) and not isinstance(value, bool).
IsNumber(type) == type = "float"

\* The dictionaries: up to MaxKeys items, no key twice.
Dicts ==
  UNION {{d \in [1..n -> [key : Keys, value : ValueTypes]] :
            \A i, j \in 1..n : d[i].key = d[j].key => i = j} : n \in 0..MaxKeys}

\* Lines 170-181: the loop over the items; key.lower() of the keys above is
\* the key.
RECURSIVE ExtractLoop(_, _, _)
ExtractLoop(items, metrics, primary) ==
  IF items = << >> THEN [primary |-> primary, metrics |-> metrics]
  ELSE LET key == Head(items).key
           metric == [name |-> key]
       IN  IF IsNumber(Head(items).value) /\ key \notin MetadataKeys
             THEN ExtractLoop(Tail(items), Append(metrics, metric),
                              IF primary = << >> /\ key \in Range(priority_keys)
                                THEN << metric >> ELSE primary)
           ELSE ExtractLoop(Tail(items), metrics, primary)

\* Lines 167-187: primary is <<>> for None.
extract_metrics_from_dict(data) ==
  LET looped == ExtractLoop(data, << >>, << >>)
  IN  IF looped.primary = << >> /\ looped.metrics # << >>
        THEN [primary |-> << looped.metrics[1] >>, metrics |-> looped.metrics]
      ELSE looped

\* A caller extracts the metrics of a dictionary; one call is looked at.
ExtractMetrics ==
  /\ metrics_call = << >>
  /\ \E data \in Dicts :
       metrics_call' = << [data |-> data,
                           result |-> extract_metrics_from_dict(data)] >>
  /\ UNCHANGED frameOfMetrics

MetricsNext == ExtractMetrics

MetricsInit == Init /\ hasConfig /\ hasOwner

MetricsSpec == MetricsInit /\ [][MetricsNext]_vars

\* ------------------------------------------------------------------ claims

CancelSucceeded(i) == cancel[i] \in {"persist", "broadcast", "true"}

TerminalWrites == {k \in DOMAIN dbWrites : dbWrites[k] \in TerminalStatuses}

\* The transitions of the state machine of the persisted status.
StatusStep ==
  /\ run'.status # run.status =>
       \/ run.status = QUEUED /\ run'.status = RUNNING
       \/ run.status = RUNNING /\ run'.status \in TerminalStatuses
       \/ run.status = QUEUED /\ run'.status = FAILED /\ ~hasConfig
  /\ run.status \in TerminalStatuses => run' = run /\ dbWrites' = dbWrites
  /\ run.started_at # 0 => run'.started_at = run.started_at
  /\ run.finished_at # 0 => run'.finished_at = run.finished_at

\* C1: under every interleaving of execute_run and cancel_run the persisted
\* status only moves QUEUED -> RUNNING -> {COMPLETED, FAILED, CANCELED}, or
\* QUEUED -> FAILED on a configuration error; after a terminal status is
\* persisted no repository write happens, so status and finished_at stay and
\* the terminal update is written at most once (once when all has returned).
C1_StatusMonotonic ==
  /\ [][StatusStep]_vars
  /\ [](Cardinality(TerminalWrites) <= 1)
  /\ [](pc = "done" /\ (\A i \in Cancels : cancel[i] # "persist")
          => Cardinality(TerminalWrites) = 1)

C1_Witness ==
  /\ pc = "done"
  /\ run.status = CANCELED
  /\ cancel[1] = "true"
  /\ cancel[2] = "false"
  /\ launches >= 2

\* C2: once cancel_run has found the process and marked the run canceled
\* (the call that returns true), the executor never classifies the attempt:
\* no COMPLETED or FAILED is ever persisted, whatever the exit code and the
\* output, and the persisted status is CANCELED from cancel_run's update on.
C2_CancelWins ==
  \A i \in Cancels :
    CancelSucceeded(i) =>
      /\ run.status = IF cancel[i] = "persist" THEN RUNNING ELSE CANCELED
      /\ \A k \in DOMAIN dbWrites : dbWrites[k] \notin {COMPLETED, FAILED}
      /\ pc \in {"wait", "done"}

\* The process had exited with code 0 and a clean output when it was canceled.
C2_Witness ==
  /\ cancel[1] = "true"
  /\ pc = "done"
  /\ exit_code = << 0 >>
  /\ content = {}
  /\ run.status = CANCELED

\* C3: a cancellation requested during the backoff sleep ends the run
\* CANCELED and no further subprocess is launched.
C3_CancelDuringBackoff ==
  backoffCancel # << >> =>
    /\ launches = backoffCancel[1]
    /\ pc = "done" => run.status = CANCELED

\* A cancel_run call issued by this step.
CancelCalled(i) == cancel[i] = "idle" /\ cancel'[i] # "idle"

\* C4: cancel_run without a registered process returns false and changes
\* nothing (canceled set, registry, persisted run, events); at most one
\* cancel_run call of a run finds a process, every later one returns false.
C4_CancelNoProcess ==
  /\ [][\A i \in Cancels :
          CancelCalled(i) /\ RunId \notin running_processes =>
            /\ cancel'[i] = "false"
            /\ UNCHANGED << canceled_runs, running_processes, run, dbWrites,
                            events, proc, retry_states, pc >>]_vars
  /\ [](\A i, j \in Cancels : CancelSucceeded(i) /\ CancelSucceeded(j) => i = j)
  /\ [](\A i, j \in Cancels :
          i < j /\ CancelSucceeded(i) /\ cancel[j] # "idle" => cancel[j] = "false")

C4_Witness ==
  /\ cancel[1] = "true"
  /\ cancel[2] = "false"
  /\ run.status = CANCELED

\* C5: when the first k >= 1 attempts each fail with a retryable pattern and
\* the next attempt exits 0 with no failure pattern in its own output, the
\* run is COMPLETED with retry_attempts = k.
C5_RetryThenSuccess ==
  ( /\ lastVerdict # "none"
    /\ launches >= 2
    /\ ownRetryable
    /\ exit_code = << 0 >>
    /\ ~DetectFailure(lastOut).failure )
  => /\ lastVerdict = "completed"
     /\ meta # << >> /\ meta[1].retry_attempts = launches - 1
     /\ pc = "done" => run.status = COMPLETED

\* C6: the exit code alone does not decide.  An attempt that exits 0 and is
\* classified (the run was not canceled meanwhile) ends the run COMPLETED
\* when the stdout+stderr the classifier reads hold no failure pattern, and
\* FAILED, not COMPLETED, when they hold an authentication-failure pattern.
C6_ExitCodeNotAuthoritative ==
  lastVerdict # "none" /\ exit_code = << 0 >> =>
    /\ ~DetectFailure(content).failure =>
         /\ lastVerdict = "completed" /\ status = COMPLETED
         /\ pc = "done" => run.status = COMPLETED
    /\ "AuthenticationError:" \in content =>
         /\ lastVerdict = "failed" /\ status = FAILED
         /\ pc = "done" => run.status = FAILED

C6_Witness ==
  /\ pc = "done"
  /\ exit_code = << 0 >>
  /\ "AuthenticationError:" \in content
  /\ lastVerdict = "failed"
  /\ run.status = FAILED

\* The signs of a permanent error: authentication, not-found/permission,
\* malformed request, user cancellation.
PermanentPatterns ==
  {"AuthenticationError:", "NotFoundError:",
   "does not exist or you do not have access", "model_not_found",
   "PermissionDeniedError:", "InvalidRequestError:", "[CANCELED]"}

\* C7: an attempt whose combined output holds a sign of a permanent error,
\* whatever else it holds, is classified non-retryable and is not retried.
C7_PermanentNeverRetried ==
  lastVerdict # "none" /\ content \cap PermanentPatterns # {} =>
    /\ ~DetectFailure(content).retryable
    /\ lastVerdict # "retry"

\* C8: a run never has more than MAX_RETRIES + 1 subprocess launches, with
\* or without cancel_run calls in between.
C8_LaunchBound == launches <= MAX_RETRIES + 1

C8_Witness ==
  /\ launches = MAX_RETRIES + 1
  /\ cancel[1] = "false"
  /\ cancel[2] = "true"

\* The run was ended by the classification of its latest attempt, and every
\* attempt of it was, by its own output, a retryable failure.
EveryAttemptRetryable ==
  /\ lastVerdict \in {"completed", "canceled", "failed"}
  /\ ownRetryable
  /\ OwnRetryableFailure(lastOut, exit_code[1])

RetriesExhausted ==
  EveryAttemptRetryable =>
    /\ launches = MAX_RETRIES + 1
    /\ lastVerdict = "failed"
    /\ pc = "done" => run.status = FAILED

\* C9 as claimed: a run whose every attempt fails with a retryable pattern
\* is launched MAX_RETRIES + 1 times and ends FAILED, and every FAILED
\* outcome after at least one retry has the attempt count appended.
C9_Original ==
  /\ RetriesExhausted
  /\ run.status = FAILED /\ attempt >= 1 => run.error.attempts = attempt + 1

\* C9 amended: a run whose every attempt fails with a retryable pattern is
\* launched MAX_RETRIES + 1 times and ends FAILED, and every FAILED outcome
\* that the failure classification decides after at least one retry has the
\* attempt count appended (a launch error on a retry has not).
C9_RetriesExhausted ==
  /\ RetriesExhausted
  /\ run.status = FAILED /\ attempt >= 1 /\ lastVerdict = "failed" =>
       /\ run.error.attempts = attempt + 1
       /\ run.error.attempts = launches

C9_Witness ==
  /\ pc = "done"
  /\ EveryAttemptRetryable
  /\ run.status = FAILED
  /\ launches = MAX_RETRIES + 1
  /\ run.error = Msg("RateLimitError:", MAX_RETRIES + 1)

AllReturned ==
  /\ pc = "done"
  /\ \A i \in Cancels : cancel[i] \in {"idle", "false", "true"}

\* C12: when a run has reached a terminal state and execute_run and every
\* cancel_run have returned, a terminal event equal to the persisted status
\* has been passed to the Event Broadcaster, whatever path ended the run.
C12_TerminalEventBroadcast ==
  AllReturned /\ run.status \in TerminalStatuses =>
    \E k \in DOMAIN events : events[k] = run.status

\* C13: execute_run on a run without configuration launches no subprocess,
\* registers no process, never persists RUNNING, and returns after it has
\* persisted FAILED with the configuration error.
C13_NoConfiguration ==
  ~hasConfig =>
    /\ launches = 0
    /\ running_processes = {} /\ proc = NoProc
    /\ run.status # RUNNING /\ \A k \in DOMAIN dbWrites : dbWrites[k] # RUNNING
    /\ pc \in {"start", "config_failed", "done"}
    /\ pc = "done" => /\ run.status = FAILED
                      /\ run.error = Msg("No configuration provided", 0)
                      /\ dbWrites = << FAILED >>

C13_Witness ==
  /\ ~hasConfig
  /\ pc = "done"
  /\ run.status = FAILED
  /\ cancel[1] = "false"

\* The launch of some attempt has raised FileNotFoundError.
LaunchFailed == pc = "launch_error" \/ run.error.text = "Command not found"

\* C14: once a launch has failed because the executable was not found, at
\* whatever attempt, no subprocess is launched any more, the run is neither
\* in the process registry nor in the retry-state map, and the run is FAILED
\* from the handler's update on.
C14_LaunchError ==
  /\ [](LaunchFailed =>
          /\ running_processes = {}
          /\ retry_states = << >>
          /\ proc = NoProc
          /\ pc \in {"launch_error", "notify", "done"}
          /\ pc # "launch_error" => run.status = FAILED)
  /\ [][LaunchFailed => launches' = launches]_vars

\* The launch of the third attempt failed.
C14_Witness ==
  /\ pc = "done"
  /\ run.status = FAILED
  /\ run.error = Msg("Command not found", 0)
  /\ launches = 2
  /\ attempt = 2

\* C15: send_run_notification is called at most once for a run, and only
\* for a run that has an owner and whose persisted outcome is COMPLETED or
\* FAILED; a run that ends CANCELED is never notified.
C15_NotificationAtMostOnce ==
  /\ notified <= 1
  /\ notified = 1 => hasOwner /\ run.status \in {COMPLETED, FAILED}
  /\ pc = "notify" => hasOwner /\ run.status \in {COMPLETED, FAILED}

C15_Witness ==
  /\ notified = 1
  /\ pc = "done"
  /\ run.status = COMPLETED
  /\ launches = 1

\* The status the classification of the latest attempt decided.
VerdictStatus(v) ==
  IF v = "completed" THEN COMPLETED ELSE IF v = "failed" THEN FAILED ELSE CANCELED

\* C16: when a summary extraction, a broadcast or a notification dispatch
\* has raised, execute_run still goes on as if it had not: the status and
\* the error it persists are the ones the classification of the last
\* attempt decided, and a cancel_run whose broadcast raised returns true.
C16_SideFailuresHarmless ==
  sideFailed =>
    /\ pc # "unexpected_error"
    /\ \A i \in Cancels : cancel[i] # "raised"
    /\ lastVerdict \in {"completed", "canceled", "failed"} =>
         /\ status = VerdictStatus(lastVerdict)
         /\ pc \in {"final_write", "final_broadcast", "notify", "done"}
         /\ pc \in {"final_broadcast", "notify", "done"} =>
              run.status = status /\ run.error = error

C16_Witness ==
  /\ sideFailed
  /\ pc = "done"
  /\ lastVerdict = "completed"
  /\ run.status = COMPLETED
  /\ notified = 1

\* The executor is awaiting a broadcast it has issued.
AwaitingBroadcast == pc \in {"broadcast_status", "retrying", "final_broadcast"}

\* C19: a subscriber whose send never completes does not block the run:
\* an execute_run that awaits a broadcast can always take its next step.
C19_SlowSubscriberHarmless ==
  hungSubscriber /\ AwaitingBroadcast =>
    ENABLED (ExecBroadcastStatus \/ ExecBroadcastRetry \/ ExecFinalBroadcast)

Count(seq, m) == Cardinality({i \in DOMAIN seq : seq[i] = m})

\* The subscribers the broadcast that has returned has delivered to.
Delivered(called) == Range(called) \ bc.failed

\* C17: when broadcast_run_event(run_id, type, data) has returned, every
\* WebSocket that was registered for run_id at the call and whose send did
\* not raise has received the event once, no other WebSocket (of another
\* run, of the dashboard, or registered later) has received it, and every
\* dashboard WebSocket registered when the mirror was sent has received it
\* once under the type prefixed with run_ and with run_id in the data.
C17_BroadcastRouting ==
  bc.pc = "done" =>
    /\ DashboardMessage.event = RunPrefixed(bc.event_type)
    /\ DashboardMessage.data["run_id"] = bc.run_id
    /\ \A k \in DOMAIN bc.data : DashboardMessage.data[k] = bc.data[k]
    /\ \A c \in Conns :
         /\ Count(inbox[c], RunMessage) =
              IF c \in Delivered(bc.called) THEN 1 ELSE 0
         /\ Count(inbox[c], DashboardMessage) =
              IF c \in Delivered(bc.dashCalled) THEN 1 ELSE 0
         /\ c \in Range(bc.called) => topic[c] = bc.run_id
         /\ c \in Range(bc.dashCalled) => topic[c] = Dashboard
         /\ c \in bc.failed => sock[c] \in {"closed", "gone"}

\* A broadcast for r1 reached a subscriber of r1 and a dashboard subscriber
\* while a subscriber of r2 was registered.
C17_Witness ==
  /\ bc.pc = "done"
  /\ bc.run_id = RunId
  /\ bc.failed = {}
  /\ Range(bc.called) # {}
  /\ Range(bc.dashCalled) # {}
  /\ run_connections["r2"] # << >>

\* C18: a broadcast never raises, also when a subscriber whose send raised
\* has been unsubscribed meanwhile; when it has returned, every subscriber
\* whose send raised is out of the registry and every other subscriber of
\* its snapshots has received the event.
C18_FailedSubscriberRemoved ==
  /\ bc.pc # "raised"
  /\ bc.pc = "done" =>
       /\ \A c \in bc.failed :
            /\ c \notin Range(run_connections[bc.run_id])
            /\ c \notin Range(dashboard_connections)
       /\ \A c \in Range(bc.called) \ bc.failed : Count(inbox[c], RunMessage) = 1
       /\ \A c \in Range(bc.dashCalled) \ bc.failed :
            Count(inbox[c], DashboardMessage) = 1

\* The send to the first subscriber of the snapshot raised, that subscriber
\* was unsubscribed before the cleanup, and a later subscriber of the
\* snapshot received the event.
C18_Witness ==
  /\ bc.pc = "done"
  /\ bc.raced
  /\ Len(bc.called) >= 2
  /\ bc.called[1] \in bc.failed
  /\ bc.called[2] \notin bc.failed
  /\ Count(inbox[bc.called[2]], RunMessage) = 1

\* The stream has been opened by a client.
StreamConnected == stream.pc # "idle"

C20_AtMostOnce ==
  /\ stream.polled + stream.pushed <= 1
  /\ stream.late => stream.polled + stream.pushed = 0

\* seq is the beginning of other.
IsPrefix(seq, other) ==
  Len(seq) <= Len(other) /\ SubSeq(other, 1, Len(seq)) = seq

\* Index of the last newline of text, 0 when there is none.
LastNewline(text) ==
  IF \E i \in DOMAIN text : text[i] = NL
    THEN CHOOSE i \in DOMAIN text :
           text[i] = NL /\ \A j \in DOMAIN text : text[j] = NL => j <= i
    ELSE 0

\* The newline-terminated lines of stdout.log.
CompleteLines ==
  SplitLines(SubSeq(Chars(stdout_log), 1, LastNewline(Chars(stdout_log))))

\* C21: the lines tail_file has returned are complete lines of the file, in
\* order, none of them a piece of a line; while the file does not exist no
\* line is returned and the offset stays where it was.
C21_CompleteLinesOnly ==
  /\ IsPrefix(log_lines, CompleteLines)
  /\ ~logExists => log_lines = << >> /\ stdout_pos = 0

\* C22: once the executor has finished writing and the stream has read to
\* the end of the file, the lines it has delivered are the lines of the
\* file, each once and in file order.
C22_EveryLineOnceInOrder ==
  (logPc = "done" /\ stdout_pos = Len(stdout_log)) =>
    log_lines = SplitLines(Chars(stdout_log))

\* The progress values parsed from lines, in order.
RECURSIVE Parsed(_)
Parsed(lines) ==
  IF lines = << >> THEN << >>
  ELSE parse_progress(Head(lines)) \o Parsed(Tail(lines))

\* seq without the elements that repeat their predecessor.
RECURSIVE Compress(_)
Compress(seq) ==
  IF Len(seq) <= 1 THEN seq
  ELSE LET rest == Compress(Tail(seq))
       IN  IF Head(seq) = Head(rest) THEN rest ELSE << Head(seq) >> \o rest

\* C23: the progress events of a stream are the progress values of the
\* lines it delivered, without those that repeat the value emitted before
\* them; no two consecutive progress events are equal.
C23_ProgressOnChange ==
  /\ progress_events = Compress(Parsed(log_lines))
  /\ \A i \in 1..(Len(progress_events) - 1) :
       progress_events[i] # progress_events[i + 1]

\* The same progress line was delivered twice in succession and one
\* progress event was sent.
C23_Witness ==
  /\ Len(Parsed(log_lines)) = 2
  /\ Parsed(log_lines)[1] = Parsed(log_lines)[2]
  /\ Len(progress_events) = 1

\* C26: in stdout.log the characters of the attempts are in attempt order
\* and the retry marker of an attempt precedes the output of that attempt.
C26_AttemptOrder ==
  \A i, j \in DOMAIN stdout_log :
    i < j =>
      /\ stdout_log[i].attempt <= stdout_log[j].attempt
      /\ (stdout_log[i].attempt = stdout_log[j].attempt /\ stdout_log[j].marker)
           => stdout_log[i].marker

\* C24: a step that removes the row or the artifact directory of the run is
\* taken only while the persisted status is not RUNNING, and a delete_run
\* that returns while the run is RUNNING returns False.
C24_RunningNotRemoved ==
  [][/\ (~row_deleted /\ row_deleted') => run.status # RUNNING
     /\ (~artifacts_deleted /\ artifacts_deleted') => run.status # RUNNING
     /\ (deleter.pc # "returned" /\ deleter'.pc = "returned"
           /\ run.status = RUNNING) => deleter'.result = << FALSE >>]_vars

\* The call of calculate_delay looked at, its nominal value and its band.
Call == delay_call[1]
Nominal ==
  NominalDelay(IF Call.by = "executor" THEN Call.attempt - 1 ELSE Call.attempt,
               Call.config)
Band == (Nominal * Call.config.jitter_range) \div 100

C27_RegisteredMeansRunning ==
  /\ [](RunId \in running_processes => run.status = RUNNING)
  /\ [](launches > 0 =>
          /\ Len(dbWrites) > 0 /\ dbWrites[1] = RUNNING
          /\ Len(events) > 0 /\ events[1] = "status")
  /\ [][(run'.status \in TerminalStatuses /\ run'.status # run.status) =>
          /\ RunId \notin running_processes
          /\ RunId \notin running_processes']_vars

\* cancel_run has removed the registration of a retried attempt and then
\* persisted CANCELED.
C27_Witness ==
  /\ launches = 2
  /\ run.status = CANCELED
  /\ \E i \in Cancels : CancelSucceeded(i)
  /\ RunId \notin running_processes

\* The wait has returned for an attempt that exited with code 130 while no
\* cancel request is recorded for the run.
Exit130Unrequested ==
  /\ pc = "wait"
  /\ proc.state = "exited"
  /\ proc.code = 130
  /\ RunId \notin canceled_runs

\* C28: an attempt that exited 130 without a recorded cancel request is
\* classified CANCELED whatever its output; from then on no subprocess is
\* launched and no notification dispatched, and CANCELED is what is
\* persisted.
C28_Exit130EndsCanceled ==
  /\ [][(Exit130Unrequested /\ pc' # pc) =>
          status' = CANCELED /\ lastVerdict' = "canceled" /\ pc' = "final_write"]_vars
  /\ [][lastVerdict = "canceled" =>
          launches' = launches /\ lastVerdict' = "canceled"]_vars
  /\ [](lastVerdict = "canceled" =>
          /\ status = CANCELED
          /\ notified = 0
          /\ RunId \notin running_processes
          /\ pc \in {"final_write", "final_broadcast", "done"}
          /\ pc # "final_write" => run.status = CANCELED)

\* A retried attempt whose output holds a retryable pattern exited 130, no
\* cancel_run succeeded, and execute_run has returned.
C28_Witness ==
  /\ lastVerdict = "canceled"
  /\ pc = "done"
  /\ launches = 2
  /\ DetectFailure(lastOut).retryable
  /\ \A i \in Cancels : ~CancelSucceeded(i)
  /\ run.status = CANCELED

\* C29: once execute_run has returned the run has no retry state, no
\* registered process and no canceled flag.
C29_RegistriesEmptyAfterReturn ==
  pc = "done" =>
    /\ retry_states = << >>
    /\ RunId \notin running_processes
    /\ RunId \notin canceled_runs

\* execute_run has returned after a cancel_run that succeeded during a
\* retried attempt.
C29_Witness ==
  /\ pc = "done"
  /\ launches = 2
  /\ \E i \in Cancels : cancel[i] = "true"

\* C30: a retrying event is broadcast at the top of each iteration after
\* the first and only there: it carries the number of the attempt it
\* announces, the delay 2^(attempt-1) s before jitter and the error the
\* previous attempt was classified with; every launch after the first has
\* its event, and the events of a run number as many as its retries.
C30_RetryingEventPerRetry ==
  /\ [](pc = "retrying" =>
          /\ RetryingEvent.attempt >= 1
          /\ RetryingEvent.attempt = Count(events, "retrying") + 1
          /\ RetryingEvent.delay \in {1000, 2000, 4000, 8000, 16000}
          /\ RetryingEvent.error = error.text
          /\ lastVerdict = "retry")
  /\ [](Count(events, "retrying") = IF pc = "retrying" THEN attempt - 1 ELSE attempt)
  /\ [][launches' = launches + 1 => Count(events', "retrying") = launches]_vars
  /\ [][Count(events', "retrying") = Count(events, "retrying") + 1 =>
          pc = "retrying"]_vars

\* The second retry has been announced and launched.
C30_Witness ==
  /\ launches = 3
  /\ Count(events, "retrying") = 2

\* ---- C31
Classified == classify_call[1]

\* The rule of the table that comes first among those whose pattern occurs
\* in stdout and stderr together, 0 when there is none.
Deciding(c) ==
  LET all == c.stdout_content.patterns \cup c.stderr_content.patterns
      occurs(i) == failure_patterns[i].pattern \in all
  IN  IF \E i \in 1..Len(failure_patterns) : occurs(i)
        THEN CHOOSE i \in 1..Len(failure_patterns) :
               occurs(i) /\ \A j \in 1..(i - 1) : ~occurs(j)
        ELSE 0

\* What the claim says of a classification, the exit codes in nonzero being
\* those for which no matching rule means FAILED.
ClassifiedAsClaimed(c, nonzero) ==
  LET i == Deciding(c)
  IN  /\ i # 0 =>
           /\ c.outcome.detected.failure
           /\ c.outcome.detected.message = failure_patterns[i].pattern
           /\ c.outcome.detected.retryable = failure_patterns[i].retryable
      /\ (i = 0 /\ c.exit_code = 0) => c.outcome.status = COMPLETED
      /\ (i = 0 /\ c.exit_code \in nonzero) =>
           /\ c.outcome.status = FAILED
           /\ ~c.outcome.retry
           /\ c.outcome.error.text =
                (IF IsEmpty(c.stderr_content) THEN ExitText(c.exit_code)
                 ELSE "tail of stderr")

\* C31 as stated: the first rule of the table whose pattern occurs decides
\* message and retryability; with no matching rule exit code 0 is success
\* and every nonzero exit code is a FAILED without retry, reported with the
\* tail of stderr or, stderr being empty, with "Process exited with code N".
C31_FirstRuleOrExitCode ==
  classify_call # << >> =>
    ClassifiedAsClaimed(Classified, ExitCodes \ {0})

\* C31 amended: the same, for every nonzero exit code other than 130.
C31_FirstRuleOrExitCodeNot130 ==
  classify_call # << >> =>
    ClassifiedAsClaimed(Classified, ExitCodes \ {0, 130})

\* The output held a retryable pattern and a pattern of an earlier rule that
\* is not retryable, and the attempt was not retried although attempts
\* remained.
C31_Witness ==
  /\ classify_call # << >>
  /\ "RateLimitError:" \in Classified.stdout_content.patterns
  /\ "NotFoundError:" \in Classified.stderr_content.patterns
  /\ Classified.exit_code = 1
  /\ Classified.attempt = 0
  /\ Classified.outcome.status = FAILED
  /\ Classified.outcome.error.text = "NotFoundError:"

\* ---- C32
\* A call waits for the subprocess of run r to exit: execute_run at line
\* 395, cancel_run in its grace-period wait.
WaitsInExecuteRun(r) == executing[r] = "wait" /\ subprocess[r] # "exited"
WaitsInCancelRun(r) == canceling[r] = "grace" /\ subprocess[r] # "exited"

\* Every task of run r that has a step to take can take it.
CanProgress(r) ==
  /\ executing[r] = "start" => ENABLED LoopLaunch(r)
  /\ (executing[r] = "wait" /\ subprocess[r] = "exited")
       => ENABLED LoopWaitReturns(r)
  /\ (canceling[r] = "idle" /\ Registered(r)) => ENABLED LoopCancel(r)
  /\ canceling[r] = "persist" => ENABLED LoopCancelReturns(r)
  /\ polled[r] < MaxPolls => ENABLED LoopStreamPoll(r)

\* C32: while execute_run or the grace-period wait of cancel_run waits for
\* the subprocess of a run to exit, every task of another run that has a
\* step to take (executor loop, cancellation, stream) can take it.
C32_WaitDoesNotBlockOthers ==
  \A r \in Runs :
    (WaitsInExecuteRun(r) \/ WaitsInCancelRun(r)) =>
      \A o \in Runs \ {r} : CanProgress(o)

\* ---- C33
\* A delivery is in progress: the snapshot is taken, broadcast_to_run has
\* not returned.
Delivering == delivery.pc = "send"

\* C33: the lock of the registry is not held while a delivery is in
\* progress and no send is made while it is held; a WebSocket that is
\* about to be subscribed and one that can be unsubscribed are not kept
\* from it by a delivery in progress.
C33_NoSendUnderLock ==
  /\ Delivering => LockFree
  /\ (Delivering /\ delivery.connections # << >>) => ENABLED BroadcastToRunSend
  /\ Delivering =>
       \A c \in Conns :
         /\ subscriber[c] = "accepted" => ENABLED ConnectToRun(c)
         /\ subscriber[c] \in {"open", "closed"} => ENABLED DisconnectFromRun(c)

\* During a delivery, after a send and before the next one, a WebSocket was
\* subscribed and another one was unsubscribed.
C33_Witness ==
  /\ Delivering
  /\ sent # << >>
  /\ delivery.connections # << >>
  /\ \E c \in Conns :
       /\ subscriber[c] = "open"
       /\ c \notin Range(sent) \cup Range(delivery.connections)
  /\ \E c \in Conns :
       /\ subscriber[c] = "gone"
       /\ c \in Range(delivery.connections)

\* ---- C34
\* The invocations of func a with_retry call has made.
Invocations == Len(with_retry_call.failures) + Len(with_retry_call.result)

\* An exception after which the claim allows no further invocation: a
\* NonRetryableError, a status code of the non-retryable set, or an
\* exception that is not retryable, that is none of a RetryableError, an
\* HTTP error with a status code of the retryable set, a connection error
\* and a timeout where the configuration retries them.
Stops(exc, config) ==
  \/ exc.kind = "NonRetryableError"
  \/ /\ exc.kind \in {"HTTPStatusError", "RetryableError"}
     /\ exc.status_code \in {400, 401, 403, 404}
  \/ ~ \/ exc.kind = "RetryableError"
       \/ exc.kind = "HTTPStatusError" /\ exc.status_code \in {429, 500, 502, 503, 504}
       \/ exc.kind = "ConnectError" /\ config.retry_on_connection_error
       \/ exc.kind = "TimeoutException" /\ config.retry_on_timeout

\* C34: with_retry invokes func at most max_retries + 1 times; it returns
\* the result of the first invocation that succeeds; an exception of func
\* that is a NonRetryableError, has a non-retryable status code or is not
\* retryable is raised at once, as it is or as a NonRetryableError with its
\* status code, and func is not invoked again; when max_retries + 1
\* invocations have failed with retryable errors, RetryableError is raised.
C34_BoundedInvocations ==
  with_retry_call.pc # "idle" =>
    LET w == with_retry_call
        config == w.config[1]
        n == Len(w.failures)
    IN  /\ Invocations <= config.max_retries + 1
        /\ w.pc = "returned" =>
             /\ w.result = << n + 1 >>
             /\ \A i \in 1..n : ~Stops(w.failures[i], config)
        /\ \A i \in 1..n :
             Stops(w.failures[i], config) =>
               /\ i = n
               /\ w.pc = "raised"
               /\ w.result = << >>
               /\ \/ w.raised = << w.failures[i] >>
                  \/ w.raised = << Exc("NonRetryableError",
                                       w.failures[i].status_code, "from exc") >>
        /\ (n = config.max_retries + 1
              /\ \A i \in 1..n : ~Stops(w.failures[i], config)) =>
             /\ w.pc = "raised"
             /\ w.raised[1].kind = "RetryableError"
             /\ w.raised[1].message = "failed after attempts"

\* A call with max_retries 2 has invoked func three times, each invocation
\* failed with a retryable error, and RetryableError was raised.
C34_Witness ==
  /\ with_retry_call.pc = "raised"
  /\ with_retry_call.config[1].max_retries = 2
  /\ Len(with_retry_call.failures) = 3
  /\ with_retry_call.raised[1].message = "failed after attempts"

\* ---- C35
\* The scheduler has dealt with run r: a poll found it due and the loop
\* over the due runs has passed it.
Processed(r) ==
  /\ r \in scheduler.found
  /\ r \notin Range(scheduler.due_runs)

\* C35: a run that a poll found due and whose start did not fail has been
\* handed to the executor exactly once, with its scheduled time cleared; no
\* run is handed more than once; a run is marked FAILED by the scheduler
\* only if its own start failed.
C35_DueRunHandedOnce ==
  \A r \in Runs :
    /\ handed[r] <= 1
    /\ (Processed(r) /\ r \notin scheduler.keys_failed) =>
         /\ handed[r] = 1
         /\ scheduled[r].scheduled_for = None
    /\ scheduled[r].status = FAILED => r \in scheduler.keys_failed

\* ---- C36
\* The keys of the dictionary of the call that have a numeric value and are
\* not metadata.
NumericKeys ==
  {metrics_call[1].data[i].key : i \in
     {j \in DOMAIN metrics_call[1].data :
        /\ metrics_call[1].data[j].value = "float"
        /\ metrics_call[1].data[j].key \notin
             {"total_samples", "completed_samples", "limit", "schema_version"}}}

\* C36: the primary metric is accuracy when the dictionary has a numeric
\* accuracy, else score, else f1, whatever the order of the keys; with none
\* of the priority keys it is the first numeric metric; the metadata keys
\* are never among the metrics.
C36_PrimaryByPriority ==
  metrics_call # << >> =>
    LET data == metrics_call[1].data
        result == metrics_call[1].result
        names == {result.metrics[i].name : i \in DOMAIN result.metrics}
    IN  /\ "accuracy" \in NumericKeys => result.primary = << [name |-> "accuracy"] >>
        /\ ("accuracy" \notin NumericKeys /\ "score" \in NumericKeys)
             => result.primary = << [name |-> "score"] >>
        /\ ({"accuracy", "score"} \cap NumericKeys = {} /\ "f1" \in NumericKeys)
             => result.primary = << [name |-> "f1"] >>
        /\ ({"accuracy", "score", "f1"} \cap NumericKeys = {} /\ NumericKeys # {})
             => result.primary = << result.metrics[1] >>
        /\ names = NumericKeys

TerminalReceived == stream.polled + stream.pushed >= 1

\* C38: when a subscriber of the live stream, SSE or WebSocket, receives
\* its first terminal event, it has been sent a log_line event for every
\* line that was in the log when the terminal status was persisted (the
\* subprocess writes nothing after that).
C38_LogLinesBeforeTerminal ==
  TerminalReceived => stream.pos = logLen

\* The part of C38 that concerns the SSE generator alone.
SseLogLinesBeforeTerminal ==
  stream.kind = "sse" /\ TerminalReceived => stream.pos = logLen

====
